---- MODULE Spec2Model ----
(***************************************************************************)
(* Formatting-preserving find-and-replace of the Word document server      *)
(* (word_document_server/utils/document_utils.py), as a state machine.     *)
(*                                                                         *)
(* A text is a sequence of characters, a character is a one-symbol string; *)
(* the invisible characters are named ("ZWSP", "NBSP", "TAB", ...).        *)
(* A run is a w:r element: its style (opaque), its child elements (w:t     *)
(* with a text, w:tab), its identity (id) and the wrapper it sits in       *)
(* (wrap = 0: a direct child of the paragraph; wrap > 0: inside that       *)
(* hyperlink or content control).  A paragraph holds its runs in document  *)
(* order.  Offsets are 0-based, as in the source.                          *)
(***************************************************************************)
EXTENDS Integers, Sequences, FiniteSets, TLC

VARIABLES
    doc,        \* the document: the sequence of its paragraphs
    doc0,       \* the document as it was passed in (history)
    old_text,   \* argument old_text
    new_text,   \* argument new_text
    called,     \* which function was called: "none", "simple", "preserve"
    pc,         \* "start", "loop", "standard", "xml", "returned", "raised"
    idx,        \* number of paragraphs of the visiting order already left behind
    count,      \* local variable count
    matches,    \* matches of the current paragraph not yet processed
    run_map,    \* the span list (snapshot) of the current paragraph
    hist,       \* per paragraph: the strategy that handled it and what it added to count
    call,       \* a single call of one of the other functions: its name and arguments
    result,     \* what that call gave: nothing yet, a returned value, or an exception
    file,       \* the stored document of that call: the sequence of its body paragraphs
    styles      \* the style catalog of the stored document: the set of its style names

\* the variables of the find-and-replace call
vars == <<doc, doc0, old_text, new_text, called, pc, idx, count, matches, run_map, hist>>

\* the variables of a single call of one of the other functions
single == <<call, result, file, styles>>

\* no single call is under way
NoCall == [fn |-> "none"]
NoResult == [kind |-> "none"]

----------------------------------------------------------------------------
(* Bounds of the model *)

\* longest flattened text of a generated paragraph
MaxLen == 3
\* longest generated search text
MaxNeedle == 2

----------------------------------------------------------------------------
(* Sequences and Python string primitives *)

Min(a, b) == IF a < b THEN a ELSE b
Max(a, b) == IF a > b THEN a ELSE b

\* t[i:j] for 0 <= i, 0 <= j
Slice(t, i, j) == SubSeq(t, i + 1, Min(j, Len(t)))

RECURSIVE Concat(_)
\* the concatenation of a sequence of texts
Concat(ts) == IF ts = <<>> THEN <<>> ELSE Head(ts) \o Concat(Tail(ts))

\* a plausible slip: str.replace(c, "", 1), only the first c is removed
RemoveFirstChar(t, c) ==
    LET at == {i \in 1..Len(t) : t[i] = c}
    IN IF at = {} THEN t
       ELSE LET i == CHOOSE j \in at : \A k \in at : j <= k
            IN SubSeq(t, 1, i - 1) \o SubSeq(t, i + 1, Len(t))

\* str.replace(c, "") for a single character c
RemoveChar(t, c) == SelectSeq(t, LAMBDA x : x # c)

\* str.replace(c, d) for single characters c, d
ReplaceChar(t, c, d) == [i \in 1..Len(t) |-> IF t[i] = c THEN d ELSE t[i]]

\* haystack[p:p+len(needle)] == needle
OccursAt(h, n, p) == /\ p >= 0
                     /\ p + Len(n) <= Len(h)
                     /\ \A k \in 1..Len(n) : h[p + k] = n[k]

\* needle in haystack
Contains(h, n) == \E p \in 0..Len(h) : OccursAt(h, n, p)

\* haystack.find(needle, start): the least position >= start, or -1
Find(h, n, start) ==
    LET ps == {p \in start..Len(h) : OccursAt(h, n, p)}
    IN IF ps = {} THEN -1 ELSE CHOOSE p \in ps : \A q \in ps : p <= q

RECURSIVE FindAllSkipping(_, _, _)
\* a plausible slip: the scan resumes behind the occurrence, at p + len
FindAllSkipping(h, n, start_search) ==
    LET match_pos == Find(h, n, start_search)
    IN IF match_pos = -1 THEN <<>>
       ELSE <<[s |-> match_pos, e |-> match_pos + Len(n)]>>
            \o FindAllSkipping(h, n, match_pos + Max(Len(n), 1))

RECURSIVE FindAllFrom(_, _, _)
\* the scan loop: record (p, p + len), resume at p + 1
FindAllFrom(h, n, start_search) ==
    LET match_pos == Find(h, n, start_search)
    IN IF match_pos = -1 THEN <<>>
       ELSE <<[s |-> match_pos, e |-> match_pos + Len(n)]>>
            \o FindAllFrom(h, n, match_pos + 1)

FindAll(h, n) == FindAllFrom(h, n, 0)

----------------------------------------------------------------------------
(* normalize_text_for_search *)

normalize_text_for_search(text) ==
    IF text = <<>> THEN text
    ELSE LET t1 == RemoveChar(text, "ZWSP")
             t2 == RemoveChar(t1, "ZWNJ")
             t3 == RemoveChar(t2, "ZWJ")
             t4 == RemoveChar(t3, "SHY")
             t5 == RemoveChar(t4, "BOM")
         IN ReplaceChar(t5, "NBSP", " ")

----------------------------------------------------------------------------
(* Runs: the document model's Run.text, and the cloner and splitter *)

TEl(t) == [tag |-> "t", text |-> t]
TabEl == [tag |-> "tab", text |-> <<>>]

\* Run.text (getter): w:t gives its text, w:tab gives a tab character
RunText(run) ==
    Concat([i \in 1..Len(run.els) |->
               IF run.els[i].tag = "tab" THEN <<"TAB">> ELSE run.els[i].text])

RECURSIVE TextEls(_, _)
\* Run.text (setter): the content is rebuilt, a tab character becomes a w:tab
\* and every other stretch of characters one w:t
TextEls(t, buf) ==
    IF t = <<>> THEN (IF buf = <<>> THEN <<>> ELSE <<TEl(buf)>>)
    ELSE IF Head(t) = "TAB"
         THEN (IF buf = <<>> THEN <<>> ELSE <<TEl(buf)>>) \o <<TabEl>> \o TextEls(Tail(t), <<>>)
         ELSE TextEls(Tail(t), Append(buf, Head(t)))

SetRunText(run, t) == [run EXCEPT !.els = TextEls(t, <<>>)]

\* index of the first w:t of a run, 0 when it has none
FirstT(els) ==
    LET ts == {i \in 1..Len(els) : els[i].tag = "t"}
    IN IF ts = {} THEN 0 ELSE CHOOSE i \in ts : \A j \in ts : i <= j

\* clone_run_with_text: a deep copy whose first w:t holds the text and whose
\* other w:t are emptied; the copy is a new element (id)
clone_run_with_text(source_run, text, id) ==
    LET f == FirstT(source_run.els)
    IN [source_run EXCEPT
          !.id = id,
          !.els = [i \in 1..Len(source_run.els) |->
                      IF source_run.els[i].tag = "t"
                      THEN TEl(IF i = f THEN text ELSE <<>>)
                      ELSE source_run.els[i]]]

\* split_run_at on the run at position pos of paragraph p
split_run_at(p, pos, split_index) ==
    LET run == p.runs[pos]
        original_text == RunText(run)
    IN IF split_index <= 0 \/ split_index >= Len(original_text) THEN p
       ELSE LET left_text == Slice(original_text, 0, split_index)
                right_text == Slice(original_text, split_index, Len(original_text))
                left_run == SetRunText(run, left_text)
                right_run == clone_run_with_text(left_run, right_text, p.nid)
            IN [p EXCEPT !.runs = SubSeq(p.runs, 1, pos - 1) \o <<left_run, right_run>>
                                  \o SubSeq(p.runs, pos + 1, Len(p.runs)),
                         !.nid = p.nid + 1]

\* what split_run_at returns: (left_text, right_text)
split_run_at_result(run, split_index) ==
    LET original_text == RunText(run)
    IN IF split_index <= 0 THEN <<(<<>>), original_text>>
       ELSE IF split_index >= Len(original_text) THEN <<original_text, (<<>>)>>
       ELSE <<Slice(original_text, 0, split_index),
              Slice(original_text, split_index, Len(original_text))>>

----------------------------------------------------------------------------
(* Paragraphs *)

\* str.startswith
StartsWith(t, prefix) == /\ Len(t) >= Len(prefix)
                         /\ SubSeq(t, 1, Len(prefix)) = prefix

\* a plausible slip: the style name compared with "TOC" as a whole
IsTOC_Exact(p) == p.style = <<"T", "O", "C">>

\* para.style and para.style.name.startswith("TOC")
IsTOC(p) == StartsWith(p.style, <<"T", "O", "C">>)

RECURSIVE PositionsFrom(_, _)
\* the positions, in p.runs, of the runs that are direct children: para.runs
PositionsFrom(runs, k) ==
    IF k > Len(runs) THEN <<>>
    ELSE (IF runs[k].wrap = 0 THEN <<k>> ELSE <<>>) \o PositionsFrom(runs, k + 1)

DirectPos(p) == PositionsFrom(p.runs, 1)

\* para.runs
DirectRuns(p) == [k \in 1..Len(DirectPos(p)) |-> p.runs[DirectPos(p)[k]]]

\* the ids of the runs that are in the paragraph's tree
LiveIds(p) == {p.runs[k].id : k \in 1..Len(p.runs)}

\* the position in p.runs of the live run with this id
PosOfId(p, id) == CHOOSE k \in 1..Len(p.runs) : p.runs[k].id = id

\* sum of the lengths of the first k texts
RECURSIVE LenUpTo(_, _)
LenUpTo(texts, k) == IF k = 0 THEN 0 ELSE LenUpTo(texts, k - 1) + Len(texts[k])

\* a plausible slip: the texts of the runs taken as they are, not normalized
DirectTextsRaw(p) == [k \in 1..Len(DirectRuns(p)) |-> RunText(DirectRuns(p)[k])]

\* the direct strategy of process_paragraph: the flattened text and the
\* spans (start_pos, end_pos, run_idx) of the runs that have text
DirectTexts(p) ==
    [k \in 1..Len(DirectRuns(p)) |-> normalize_text_for_search(RunText(DirectRuns(p)[k]))]

DirectFullText(p) == Concat(DirectTexts(p))

DirectRunMap(p) ==
    LET texts == DirectTexts(p)
        all == [k \in 1..Len(texts) |->
                   [start |-> LenUpTo(texts, k - 1), end |-> LenUpTo(texts, k),
                    ref |-> k - 1, run |-> DirectRuns(p)[k]]]
    IN SelectSeq(all, LAMBDA sp : sp.end > sp.start)

\* the text build_xml_run_map reads from one run element: the w:t texts,
\* then one space for every w:tab
XmlRunText(run) ==
    LET ts == [i \in 1..Len(run.els) |->
                  IF run.els[i].tag = "t" THEN run.els[i].text ELSE <<>>]
        tabs == SelectSeq(run.els, LAMBDA el : el.tag = "tab")
    IN Concat(ts) \o [i \in 1..Len(tabs) |-> " "]

\* build_xml_run_map: every run element of the tree, wrapped or not; a run
\* whose raw text is empty contributes nothing and gets no span
XmlTexts(p) ==
    [k \in 1..Len(p.runs) |->
        IF XmlRunText(p.runs[k]) # <<>>
        THEN normalize_text_for_search(XmlRunText(p.runs[k])) ELSE <<>>]

XmlFullText(p) == Concat(XmlTexts(p))

XmlRunMap(p) ==
    LET texts == XmlTexts(p)
        all == [k \in 1..Len(texts) |->
                   [start |-> LenUpTo(texts, k - 1), end |-> LenUpTo(texts, k),
                    ref |-> p.runs[k].id, run |-> p.runs[k]]]
    IN SelectSeq(all, LAMBDA sp : XmlRunText(sp.run) # <<>>)

build_xml_run_map(p) == [full_text |-> XmlFullText(p), xml_run_map |-> XmlRunMap(p)]

----------------------------------------------------------------------------
(* One match: the runs it overlaps, the clones that carry the replacement *)

\* the spans that overlap [match_start, match_end), with the overlap local to
\* each run: (ref, overlap_start, overlap_end, start_pos)
AffectedRuns(rmap, match_start, match_end) ==
    LET hit == SelectSeq(rmap, LAMBDA sp : sp.start < match_end /\ sp.end > match_start)
    IN [k \in 1..Len(hit) |->
           [ref |-> hit[k].ref,
            run |-> hit[k].run,
            overlap_start |-> Max(0, match_start - hit[k].start),
            overlap_end |-> Min(hit[k].end - hit[k].start, match_end - hit[k].start),
            start_pos |-> hit[k].start]]

RECURSIVE DistributeFrom(_, _, _, _, _)
\* the loop that hands the replacement text out to clones of the source runs;
\* lens[i] is the original segment length of source i; the last source takes
\* everything that is left
DistributeFrom(srcs, lens, i, remaining_text, id) ==
    IF i > Len(srcs) \/ remaining_text = <<>>
    THEN [clones |-> <<>>, rest |-> remaining_text]
    ELSE LET chars_to_take ==
                 IF i = Len(srcs) THEN Len(remaining_text)
                 ELSE IF lens[i] > 0 THEN Min(lens[i], Len(remaining_text))
                 ELSE 1
             segment_text == Slice(remaining_text, 0, chars_to_take)
             rest == Slice(remaining_text, chars_to_take, Len(remaining_text))
             made == IF segment_text # <<>>
                     THEN <<clone_run_with_text(srcs[i], segment_text, id)>>
                     ELSE <<>>
             more == DistributeFrom(srcs, lens, i + 1, rest, id + Len(made))
         IN [clones |-> made \o more.clones, rest |-> more.rest]

\* the replacement runs: the loop above, then what is still left goes into one
\* more clone of the last source
Distribute(srcs, lens, text, id) ==
    LET d == DistributeFrom(srcs, lens, 1, text, id)
    IN IF d.rest # <<>> /\ srcs # <<>>
       THEN d.clones \o <<clone_run_with_text(srcs[Len(srcs)], d.rest, id + Len(d.clones))>>
       ELSE d.clones

\* addprevious: the new runs become siblings of the run at position pos, in
\* front of it
InsertBefore(runs, pos, new) ==
    SubSeq(runs, 1, pos - 1)
    \o [k \in 1..Len(new) |-> [new[k] EXCEPT !.wrap = runs[pos].wrap]]
    \o SubSeq(runs, pos, Len(runs))

\* getparent().remove for every run whose id is in ids
RemoveIds(runs, ids) == SelectSeq(runs, LAMBDA r : r.id \notin ids)

Outcome(p, counted, raised) == [para |-> p, counted |-> counted, raised |-> raised]

----------------------------------------------------------------------------
(* process_paragraph_standard: the body of the loop over the matches *)

\* the boundary runs are split and the runs to replace are collected:
\* the paragraph afterwards, runs_to_replace, and how the pass goes on
\* ("none": no run overlaps, "raised": runs[first_run_idx] is an IndexError)
SplitBoundaries(p, rmap, match_start, match_end) ==
    LET affected_runs == AffectedRuns(rmap, match_start, match_end)
    IN IF affected_runs = <<>> THEN [para |-> p, runs_to_replace |-> <<>>, status |-> "none"]
       ELSE
       LET runs0 == DirectPos(p)
           first0 == affected_runs[1].ref
           last0 == affected_runs[Len(affected_runs)].ref
           first_overlap_start == affected_runs[1].overlap_start
           last_overlap_end == affected_runs[Len(affected_runs)].overlap_end
       IN IF first0 >= Len(runs0)
          THEN [para |-> p, runs_to_replace |-> <<>>, status |-> "raised"]
          ELSE
          LET \* split the first run; both indices move by one
              p1 == IF first_overlap_start > 0
                    THEN split_run_at(p, runs0[first0 + 1], first_overlap_start)
                    ELSE p
              first_run_idx == IF first_overlap_start > 0 THEN first0 + 1 ELSE first0
              last_run_idx == IF first_overlap_start > 0 THEN last0 + 1 ELSE last0
              runs1 == DirectPos(p1)
              last_pos == IF last_run_idx < Len(runs1)
                          THEN runs1[last_run_idx + 1] ELSE runs1[Len(runs1)]
              \* split the last run when it extends beyond the match
              p2 == IF last_overlap_end < Len(RunText(p1.runs[last_pos]))
                    THEN split_run_at(p1, last_pos, last_overlap_end)
                    ELSE p1
              runs2 == DirectPos(p2)
              stop == Min(last_run_idx + 1, Len(runs2))
          IN [para |-> p2,
              runs_to_replace |->
                  [k \in 1..(stop - first_run_idx) |-> p2.runs[runs2[first_run_idx + k]]],
              status |-> "split"]

\* the replacement runs are made and put in the place of runs_to_replace
ReplaceSelected(p, sel, text) ==
    IF sel.status = "none" THEN Outcome(p, FALSE, FALSE)
    ELSE IF sel.status = "raised" THEN Outcome(p, FALSE, TRUE)
    ELSE IF sel.runs_to_replace = <<>> THEN Outcome(sel.para, FALSE, FALSE)
    ELSE
    LET lens == [k \in 1..Len(sel.runs_to_replace) |-> Len(RunText(sel.runs_to_replace[k]))]
        replacement_runs == Distribute(sel.runs_to_replace, lens, text, sel.para.nid)
        gone == {sel.runs_to_replace[k].id : k \in 1..Len(sel.runs_to_replace)}
        p3 == IF replacement_runs # <<>>
              THEN [sel.para EXCEPT
                      !.runs = RemoveIds(InsertBefore(sel.para.runs,
                                                      PosOfId(sel.para, sel.runs_to_replace[1].id),
                                                      replacement_runs), gone),
                      !.nid = sel.para.nid + Len(replacement_runs)]
              ELSE sel.para
    IN Outcome(p3, TRUE, FALSE)

StandardMatch(p, rmap, match_start, match_end, text) ==
    ReplaceSelected(p, SplitBoundaries(p, rmap, match_start, match_end), text)

----------------------------------------------------------------------------
(* process_paragraph_xml: the body of the loop over the matches *)

RECURSIVE RemoveInOrder(_, _, _)
\* run_element.getparent().remove(run_element) for each affected run in turn;
\* a run that is no longer in the tree has no parent, and the call raises
RemoveInOrder(p, affected, k) ==
    IF k > Len(affected) THEN Outcome(p, TRUE, FALSE)
    ELSE IF affected[k].ref \notin LiveIds(p) THEN Outcome(p, FALSE, TRUE)
    ELSE RemoveInOrder([p EXCEPT !.runs = RemoveIds(p.runs, {affected[k].ref})],
                       affected, k + 1)

XmlMatch(p, rmap, match_start, match_end, text) ==
    LET affected_xml_runs == AffectedRuns(rmap, match_start, match_end)
    IN IF affected_xml_runs = <<>> THEN Outcome(p, FALSE, FALSE)
       ELSE
       LET srcs == [k \in 1..Len(affected_xml_runs) |-> affected_xml_runs[k].run]
           lens == [k \in 1..Len(affected_xml_runs) |->
                       affected_xml_runs[k].overlap_end - affected_xml_runs[k].overlap_start]
           replacement_runs == Distribute(srcs, lens, text, p.nid)
           insert_point == affected_xml_runs[1].ref
       IN IF replacement_runs = <<>> THEN Outcome(p, TRUE, FALSE)
          ELSE IF insert_point \notin LiveIds(p)
               \* the clones become siblings of a run outside the tree, then
               \* the removal of that run raises
               THEN Outcome(p, FALSE, TRUE)
          ELSE RemoveInOrder([p EXCEPT
                                !.runs = InsertBefore(p.runs, PosOfId(p, insert_point),
                                                      replacement_runs),
                                !.nid = p.nid + Len(replacement_runs)],
                             affected_xml_runs, 1)

----------------------------------------------------------------------------
(* find_and_replace_text: the plain replace, run by run *)

RECURSIVE StrReplaceFrom(_, _, _)
\* str.replace for a non-empty old: left to right, occurrences do not overlap
StrReplaceFrom(t, old, new) ==
    IF t = <<>> THEN <<>>
    ELSE IF OccursAt(t, old, 0)
         THEN new \o StrReplaceFrom(Slice(t, Len(old), Len(t)), old, new)
         ELSE <<Head(t)>> \o StrReplaceFrom(Tail(t), old, new)

\* str.replace; an empty old matches before every character and at the end
StrReplace(t, old, new) ==
    IF old = <<>>
    THEN Concat([i \in 1..Len(t) |-> new \o <<t[i]>>]) \o new
    ELSE StrReplaceFrom(t, old, new)

\* para.text: the text of the runs of the paragraph, hyperlinks included
ParaText(p) == Concat([k \in 1..Len(p.runs) |-> RunText(p.runs[k])])

\* the runs of one paragraph after the loop over para.runs
SimpleRuns(p, old, new) ==
    [k \in 1..Len(p.runs) |->
        IF p.runs[k].wrap = 0 /\ Contains(RunText(p.runs[k]), old)
        THEN SetRunText(p.runs[k], StrReplace(RunText(p.runs[k]), old, new))
        ELSE p.runs[k]]

\* how many runs of the paragraph the loop replaces in
SimpleHits(p, old) ==
    Cardinality({k \in 1..Len(p.runs) :
                    p.runs[k].wrap = 0 /\ Contains(RunText(p.runs[k]), old)})

\* does the plain replace touch this paragraph
SimpleTouches(p, old) == ~IsTOC(p) /\ Contains(ParaText(p), old)

----------------------------------------------------------------------------
(* The document and the order in which its paragraphs are visited *)

RECURSIVE IndicesAt(_, _, _)
\* the indices of the paragraphs of d that sit at location loc
IndicesAt(d, loc, k) ==
    IF k > Len(d) THEN <<>>
    ELSE (IF d[k].loc = loc THEN <<k>> ELSE <<>>) \o IndicesAt(d, loc, k + 1)

\* doc.paragraphs, then the paragraphs of the cells of doc.tables: the body
\* paragraphs (loc "body"), then the paragraphs that are children of a cell of
\* a table of the body (loc "cell"); doc.tables holds the tables of the body
\* only and cell.paragraphs the paragraphs of the cell itself, so a paragraph
\* of a table inside a cell (loc "nested") is in neither
Visit(d) == IndicesAt(d, "body", 1) \o IndicesAt(d, "cell", 1)

\* the paragraph being processed
Cur == Visit(doc)[idx + 1]

----------------------------------------------------------------------------
(* The inputs *)

Alphabet == {"a", "b", "ZWSP"}
NeedleAlphabet == {"a", "b"}
ReplChars == <<"X", "Y", "Z", "W">>
\* longest replacement text
MaxRepl == 2

Normal == <<"N", "o", "r", "m", "a", "l">>
TOC1 == <<"T", "O", "C", " ", "1">>

RECURSIVE Partitions(_)
\* the ways to cut a text into non-empty run texts
Partitions(t) ==
    IF t = <<>> THEN {<<>>}
    ELSE UNION {{<<SubSeq(t, 1, k)>> \o rest : rest \in Partitions(SubSeq(t, k + 1, Len(t)))} :
                   k \in 1..Len(t)}

\* the sequences of non-empty run texts of total length n
RunTextSeqs(n) == UNION {Partitions(t) : t \in [1..n -> Alphabet]}

\* a paragraph's runs: the texts, and for each run whether it is wrapped;
\* neighbouring runs differ in style
MakeRuns(texts, wraps) ==
    [k \in 1..Len(texts) |->
        [id |-> k,
         style |-> IF k % 2 = 1 THEN "roman" ELSE "bold",
         els |-> TextEls(texts[k], <<>>),
         wrap |-> wraps[k]]]

MakePara(style, loc, runs) ==
    [style |-> style, loc |-> loc, runs |-> runs, nid |-> Len(runs) + 1]

\* the texts hold at most one invisible character
OneInvisible(texts) == Len(SelectSeq(Concat(texts), LAMBDA c : c = "ZWSP")) <= 1

\* which runs sit in a hyperlink: none, all, only the first, only the last
WrapPatterns(k) ==
    {[i \in 1..k |-> 0], [i \in 1..k |-> 1],
     [i \in 1..k |-> IF i = 1 THEN 1 ELSE 0], [i \in 1..k |-> IF i = k THEN 1 ELSE 0]}

RunSeqs ==
    UNION {{MakeRuns(texts, wraps) : wraps \in WrapPatterns(Len(texts))} :
              texts \in {ts \in UNION {RunTextSeqs(n) : n \in 1..MaxLen} : OneInvisible(ts)}}

\* the same runs in a body paragraph and in a paragraph of a table cell, one
\* of the two possibly a table-of-contents paragraph
Layouts ==
    {<<<<Normal, "body">>, <<Normal, "cell">>>>,
     <<<<Normal, "body">>, <<TOC1, "cell">>>>,
     <<<<TOC1, "body">>, <<Normal, "cell">>>>}

Docs == {[k \in 1..Len(l) |-> MakePara(l[k][1], l[k][2], rs)] : l \in Layouts, rs \in RunSeqs}

\* the search texts: the texts over the letters that start with "a" (the
\* paragraphs are closed under exchanging the two letters), the empty text, a
\* text of invisible characters only and a text with an invisible character
Needles ==
    {n \in UNION {[1..k -> NeedleAlphabet] : k \in 0..MaxNeedle} : n = <<>> \/ n[1] = "a"}
    \cup {<<"ZWSP">>, <<"a", "ZWSP", "b">>}

Replacements == {SubSeq(ReplChars, 1, k) : k \in 0..MaxRepl}

\* the scenarios of the specification's testable properties, each a document
\* of one body paragraph of direct runs, with its search and replacement text
AllDirect(texts) == MakeRuns(texts, [i \in 1..Len(texts) |-> 0])

Scenario(texts, old, new) ==
    [doc |-> <<MakePara(Normal, "body", AllDirect(texts))>>, old |-> old, new |-> new]

\* "Hello " / "world" / "!", replace "lo wor" by "LO-WOR"
HelloScenario ==
    Scenario(<<(<<"H", "e", "l", "l", "o", " ">>), (<<"w", "o", "r", "l", "d">>), (<<"!">>)>>,
             <<"l", "o", " ", "w", "o", "r">>, <<"L", "O", "-", "W", "O", "R">>)

\* "ababab" in every partition into runs, replace "ab" by "X"
AbababScenarios ==
    {Scenario(texts, <<"a", "b">>, <<"X">>) :
        texts \in Partitions(<<"a", "b", "a", "b", "a", "b">>)}

\* "aaaab" in every partition into runs, replace "aaa" by "X": the
\* occurrences at 0 and at 1 overlap
OverlapScenarios ==
    {Scenario(texts, <<"a", "a", "a">>, <<"X">>) :
        texts \in Partitions(<<"a", "a", "a", "a", "b">>)}

\* "abab" as the runs "ab" and "ab", the first one with or without a leading
\* zero-width space, replace "ba": the match starts inside the first run and
\* ends inside the second
CrossRunScenarios ==
    {Scenario(<<first, (<<"a", "b">>)>>, <<"b", "a">>, r) :
        first \in {(<<"a", "b">>), (<<"ZWSP", "a", "b">>)}, r \in Replacements \ {<<>>}}

\* a body paragraph, a paragraph of a table cell and a paragraph of a table
\* nested in that cell, each of one direct run, replace "a" by "X"
NestedScenarios ==
    {[doc |-> <<MakePara(Normal, "body", AllDirect(<<t1>>)),
                MakePara(Normal, "cell", AllDirect(<<t2>>)),
                MakePara(Normal, "nested", AllDirect(<<t3>>))>>,
      old |-> <<"a">>, new |-> <<"X">>] :
        t1 \in {<<"a">>, <<"b">>}, t2 \in {<<"a">>, <<"b">>}, t3 \in {<<"a">>, <<"a", "b">>}}

Scenarios ==
    {HelloScenario} \cup AbababScenarios \cup OverlapScenarios \cup CrossRunScenarios
    \cup NestedScenarios

NoHist(d) == [k \in 1..Len(d) |-> [strategy |-> "none", added |-> 0]]

----------------------------------------------------------------------------
(* The state machine *)

Init ==
    /\ \/ /\ doc \in Docs
          /\ old_text \in Needles
          /\ new_text \in Replacements
       \/ \E sc \in Scenarios :
             /\ doc = sc.doc
             /\ old_text = sc.old
             /\ new_text = sc.new
    /\ doc0 = doc
    /\ called = "none"
    /\ pc = "start"
    /\ idx = 0
    /\ count = 0
    /\ matches = <<>>
    /\ run_map = <<>>
    /\ hist = NoHist(doc)
    /\ call = NoCall /\ result = NoResult /\ file = <<>> /\ styles = {}

\* find_and_replace_text, the whole call
FindAndReplaceText ==
    /\ pc = "start"
    /\ called' = "simple"
    /\ doc' = [k \in 1..Len(doc) |->
                  IF doc[k].loc \in {"body", "cell"} /\ SimpleTouches(doc[k], old_text)
                  THEN [doc[k] EXCEPT !.runs = SimpleRuns(doc[k], old_text, new_text)]
                  ELSE doc[k]]
    /\ hist' = [k \in 1..Len(doc) |->
                  IF doc[k].loc \in {"body", "cell"} /\ SimpleTouches(doc[k], old_text)
                  THEN [strategy |-> "simple", added |-> SimpleHits(doc[k], old_text)]
                  ELSE [strategy |-> "skip", added |-> 0]]
    /\ count' = LenUpTo([k \in 1..Len(doc) |-> [j \in 1..hist'[k].added |-> 0]], Len(doc))
    /\ pc' = "returned"
    /\ UNCHANGED <<doc0, old_text, new_text, idx, matches, run_map>>
    /\ UNCHANGED single

\* find_and_replace_text_preserve_formatting is entered
CallPreserve ==
    /\ pc = "start"
    /\ called' = "preserve"
    /\ pc' = "loop"
    /\ UNCHANGED <<doc, doc0, old_text, new_text, idx, count, matches, run_map, hist>>
    /\ UNCHANGED single

\* process_paragraph on a TOC paragraph
SkipTOC ==
    /\ pc = "loop" /\ idx < Len(Visit(doc))
    /\ IsTOC(doc[Cur])
    /\ idx' = idx + 1
    /\ hist' = [hist EXCEPT ![Cur].strategy = "skip"]
    /\ UNCHANGED <<doc, doc0, old_text, new_text, called, pc, count, matches, run_map>>
    /\ UNCHANGED single

\* process_paragraph: the direct text holds the search text
TryDirect ==
    /\ pc = "loop" /\ idx < Len(Visit(doc))
    /\ ~IsTOC(doc[Cur])
    /\ LET full_text == DirectFullText(doc[Cur])
           normalized_old_text == normalize_text_for_search(old_text)
       IN /\ Contains(full_text, normalized_old_text)
          /\ matches' = IF full_text = <<>> THEN <<>>
                        ELSE FindAll(full_text, normalized_old_text)
          /\ run_map' = DirectRunMap(doc[Cur])
    /\ pc' = "standard"
    /\ hist' = [hist EXCEPT ![Cur].strategy = "standard"]
    /\ UNCHANGED <<doc, doc0, old_text, new_text, called, idx, count>>
    /\ UNCHANGED single

\* a plausible slip: the tree traversal is tried without looking at what the
\* direct index found
TryXmlAlways ==
    /\ pc = "loop" /\ idx < Len(Visit(doc))
    /\ ~IsTOC(doc[Cur])
    /\ LET normalized_old_text == normalize_text_for_search(old_text)
           xml == build_xml_run_map(doc[Cur])
       IN /\ Contains(xml.full_text, normalized_old_text)
          /\ matches' = IF xml.full_text = <<>> THEN <<>>
                        ELSE FindAll(xml.full_text, normalized_old_text)
          /\ run_map' = xml.xml_run_map
    /\ pc' = "xml"
    /\ hist' = [hist EXCEPT ![Cur].strategy = "xml"]
    /\ UNCHANGED <<doc, doc0, old_text, new_text, called, idx, count>>
    /\ UNCHANGED single

\* process_paragraph: the direct text does not hold it, the tree's text does
TryXml ==
    /\ pc = "loop" /\ idx < Len(Visit(doc))
    /\ ~IsTOC(doc[Cur])
    /\ LET normalized_old_text == normalize_text_for_search(old_text)
           xml == build_xml_run_map(doc[Cur])
       IN /\ ~Contains(DirectFullText(doc[Cur]), normalized_old_text)
          /\ Contains(xml.full_text, normalized_old_text)
          /\ matches' = IF xml.full_text = <<>> THEN <<>>
                        ELSE FindAll(xml.full_text, normalized_old_text)
          /\ run_map' = xml.xml_run_map
    /\ pc' = "xml"
    /\ hist' = [hist EXCEPT ![Cur].strategy = "xml"]
    /\ UNCHANGED <<doc, doc0, old_text, new_text, called, idx, count>>
    /\ UNCHANGED single

\* process_paragraph: neither text holds the search text
NoMatch ==
    /\ pc = "loop" /\ idx < Len(Visit(doc))
    /\ ~IsTOC(doc[Cur])
    /\ LET normalized_old_text == normalize_text_for_search(old_text)
       IN /\ ~Contains(DirectFullText(doc[Cur]), normalized_old_text)
          /\ ~Contains(build_xml_run_map(doc[Cur]).full_text, normalized_old_text)
    /\ idx' = idx + 1
    /\ hist' = [hist EXCEPT ![Cur].strategy = "nomatch"]
    /\ UNCHANGED <<doc, doc0, old_text, new_text, called, pc, count, matches, run_map>>
    /\ UNCHANGED single

\* what one pass of a loop over the matches does to the state
Apply(out) ==
    /\ doc' = [doc EXCEPT ![Cur] = out.para]
    /\ count' = IF out.counted THEN count + 1 ELSE count
    /\ hist' = IF out.counted THEN [hist EXCEPT ![Cur].added = @ + 1] ELSE hist
    /\ pc' = IF out.raised THEN "raised" ELSE pc
    /\ matches' = SubSeq(matches, 1, Len(matches) - 1)
    /\ UNCHANGED <<doc0, old_text, new_text, called, idx, run_map>>
    /\ UNCHANGED single

\* process_paragraph_standard: the rightmost match not yet processed
StandardStep ==
    /\ pc = "standard" /\ matches # <<>>
    /\ LET m == matches[Len(matches)]
       IN Apply(StandardMatch(doc[Cur], run_map, m.s, m.e, new_text))

\* process_paragraph_xml: the rightmost match not yet processed
XmlStep ==
    /\ pc = "xml" /\ matches # <<>>
    /\ LET m == matches[Len(matches)]
       IN Apply(XmlMatch(doc[Cur], run_map, m.s, m.e, new_text))

\* the loop over the matches is over: on to the next paragraph
EndParagraph ==
    /\ pc \in {"standard", "xml"} /\ matches = <<>>
    /\ pc' = "loop"
    /\ idx' = idx + 1
    /\ run_map' = <<>>
    /\ UNCHANGED <<doc, doc0, old_text, new_text, called, count, matches, hist>>
    /\ UNCHANGED single

\* return count
Return ==
    /\ pc = "loop" /\ idx = Len(Visit(doc))
    /\ pc' = "returned"
    /\ UNCHANGED <<doc, doc0, old_text, new_text, called, idx, count, matches, run_map, hist>>
    /\ UNCHANGED single

Next ==
    \/ FindAndReplaceText
    \/ CallPreserve
    \/ SkipTOC
    \/ TryDirect
    \/ TryXml
    \/ NoMatch
    \/ StandardStep
    \/ XmlStep
    \/ EndParagraph
    \/ Return

Spec == Init /\ [][Next]_<<vars, single>>

----------------------------------------------------------------------------
(* The helper functions, each called once on its own *)

\* longest text of a run handed to a helper
MaxRunText == 3

\* the find-and-replace machine is not in use
ReplaceIdle ==
    /\ doc = <<>> /\ doc0 = <<>> /\ old_text = <<>> /\ new_text = <<>>
    /\ called = "none" /\ pc = "idle" /\ idx = 0 /\ count = 0
    /\ matches = <<>> /\ run_map = <<>> /\ hist = <<>>

\* the characters of the runs handed to the helpers
UnitAlphabet == {"a", "b", "TAB"}

\* the texts of at most n characters
TextsUpTo(chars, n) == UNION {[1..k -> chars] : k \in 0..n}

\* a run as the document holds it: the text in w:t elements, a w:tab for
\* every tab character
MakeRun(id, text) == [id |-> id, style |-> "bold", els |-> TextEls(text, <<>>), wrap |-> 0]

\* a roman run "c" and the run under test, in either order
ParaAround(text, pos) ==
    LET other == [id |-> 2, style |-> "roman", els |-> <<TEl(<<"c">>)>>, wrap |-> 0]
        run == MakeRun(1, text)
    IN MakePara(Normal, "body", IF pos = 1 THEN <<run, other>> ELSE <<other, run>>)

\* the calls of split_run_at: a run of a paragraph and an offset in its text
SplitCalls ==
    {[fn |-> "split_run_at", para |-> ParaAround(t, pos), pos |-> pos, split_index |-> k] :
        t \in TextsUpTo(UnitAlphabet, MaxRunText), pos \in 1..2, k \in 0..MaxRunText}

\* longest text handed to normalize_text_for_search
MaxNormText == 3

\* a letter, a space and the characters normalize_text_for_search knows
NormAlphabet == {"a", " ", "ZWSP", "ZWNJ", "ZWJ", "SHY", "BOM", "NBSP"}

NormalizeCalls ==
    {[fn |-> "normalize_text_for_search", text |-> t] : t \in TextsUpTo(NormAlphabet, MaxNormText)}

\* longest flattened text handed to the match scan
MaxHaystack == 4

\* the match scan of the two strategies: a flattened text and a search text
ScanCalls ==
    {[fn |-> "match scan", full_text |-> h, old_text_norm |-> n] :
        h \in TextsUpTo(NeedleAlphabet, MaxHaystack), n \in TextsUpTo(NeedleAlphabet, MaxNeedle)}

\* longest text of a generated run handed to the index builders
MaxIndexText == 2

\* the characters of those runs: a letter, a tab, a zero-width space
IndexAlphabet == {"a", "TAB", "ZWSP"}

\* paragraphs of one or two runs, each run a direct child or inside a
\* hyperlink, with any text of up to MaxIndexText characters (none included);
\* and the run "a<tab>b", direct or wrapped
IndexParas ==
    LET texts == TextsUpTo(IndexAlphabet, MaxIndexText)
        seqs == {<<t>> : t \in texts} \cup {<<t1, t2>> : t1 \in texts, t2 \in texts}
                \cup {<<(<<"a", "TAB", "b">>)>>}
    IN UNION {{MakePara(Normal, "body", MakeRuns(ts, ws)) : ws \in [1..Len(ts) -> {0, 1}]} :
                 ts \in seqs}

\* the two index builders, each on a paragraph
IndexCalls ==
    {[fn |-> f, para |-> p] : f \in {"direct index", "build_xml_run_map"}, p \in IndexParas}

\* most child elements of a source run handed to the cloner
MaxSourceEls == 3
\* longest text handed to the cloner
MaxCloneText == 2

\* the source runs: any sequence of w:t ("a" or "b") and w:tab elements, none
\* included
SourceRuns ==
    {[id |-> 1, style |-> "bold", els |-> els, wrap |-> 0] :
        els \in UNION {[1..k -> {TEl(<<"a">>), TEl(<<"b">>), TabEl}] : k \in 0..MaxSourceEls}}

\* the calls of clone_run_with_text: a source run of a paragraph and a text
CloneCalls ==
    {[fn |-> "clone_run_with_text", para |-> MakePara(Normal, "body", <<r>>), text |-> t] :
        r \in SourceRuns, t \in TextsUpTo({"X", "Y"}, MaxCloneText)}

\* most runs covered by a match handed to the distribution
MaxCovered == 2
\* longest replacement text handed to the distribution
MaxDistRepl == 3

\* the texts of the runs a match covers: letters, a tab, a letter and a tab
CoveredTexts == {<<"a">>, <<"a", "a">>, <<"TAB">>, <<"a", "TAB">>}

\* the runs a match covers: one to MaxCovered runs
CoveredRuns ==
    UNION {{AllDirect(ts) : ts \in [1..k -> CoveredTexts]} : k \in 1..MaxCovered}

\* the distribution of the direct strategy: the runs to replace and new_text
StandardDistCalls ==
    {[fn |-> "standard distribution", runs |-> rs, new_text |-> SubSeq(ReplChars, 1, n)] :
        rs \in CoveredRuns, n \in 0..MaxDistRepl}

\* the distribution of the tree traversal: the affected runs, the length of
\* the overlap of each with the match, and new_text
XmlDistCalls ==
    UNION {{[fn |-> "xml distribution", runs |-> rs, lens |-> ls,
             new_text |-> SubSeq(ReplChars, 1, n)] :
               ls \in [1..Len(rs) -> {0, 1, 2}], n \in 0..MaxDistRepl} :
           rs \in CoveredRuns}

UnitInit ==
    /\ ReplaceIdle
    /\ file = <<>> /\ styles = {}
    /\ result = NoResult
    /\ \/ /\ call \in SplitCalls
          /\ call.split_index <= Len(RunText(call.para.runs[call.pos]))
       \/ call \in NormalizeCalls
       \/ call \in ScanCalls
       \/ call \in IndexCalls
       \/ call \in CloneCalls
       \/ call \in StandardDistCalls
       \/ /\ call \in XmlDistCalls
          /\ \A k \in 1..Len(call.runs) : call.lens[k] <= Len(XmlRunText(call.runs[k]))

\* split_run_at(run, split_index)
SplitRunAt ==
    /\ call.fn = "split_run_at" /\ result = NoResult
    /\ result' = [kind |-> "returned",
                  value |-> split_run_at_result(call.para.runs[call.pos], call.split_index),
                  para |-> split_run_at(call.para, call.pos, call.split_index)]
    /\ UNCHANGED <<call, file, styles>>
    /\ UNCHANGED vars

\* normalize_text_for_search(text)
Normalize ==
    /\ call.fn = "normalize_text_for_search" /\ result = NoResult
    /\ result' = [kind |-> "returned", value |-> normalize_text_for_search(call.text)]
    /\ UNCHANGED <<call, file, styles>>
    /\ UNCHANGED vars

\* normalize_text_for_search applied to what it returned
NormalizeAgain ==
    /\ call.fn = "normalize_text_for_search" /\ result.kind = "returned"
    /\ result' = [kind |-> "returned twice", value |-> result.value,
                  again |-> normalize_text_for_search(result.value)]
    /\ UNCHANGED <<call, file, styles>>
    /\ UNCHANGED vars

\* the loop that collects the matches of a paragraph
MatchScan ==
    /\ call.fn = "match scan" /\ result = NoResult
    /\ result' = [kind |-> "returned", value |-> FindAll(call.full_text, call.old_text_norm)]
    /\ UNCHANGED <<call, file, styles>>
    /\ UNCHANGED vars

\* process_paragraph: the flattened text and the run_map of para.runs
BuildDirectIndex ==
    /\ call.fn = "direct index" /\ result = NoResult
    /\ result' = [kind |-> "returned",
                  full_text |-> DirectFullText(call.para),
                  run_map |-> DirectRunMap(call.para)]
    /\ UNCHANGED <<call, file, styles>>
    /\ UNCHANGED vars

\* build_xml_run_map(para)
BuildXmlRunMap ==
    /\ call.fn = "build_xml_run_map" /\ result = NoResult
    /\ result' = [kind |-> "returned",
                  full_text |-> build_xml_run_map(call.para).full_text,
                  run_map |-> build_xml_run_map(call.para).xml_run_map]
    /\ UNCHANGED <<call, file, styles>>
    /\ UNCHANGED vars

\* clone_run_with_text(source_run, text)
CloneRunWithText ==
    /\ call.fn = "clone_run_with_text" /\ result = NoResult
    /\ result' = [kind |-> "returned",
                  value |-> clone_run_with_text(call.para.runs[1], call.text, call.para.nid),
                  para |-> call.para]
    /\ UNCHANGED <<call, file, styles>>
    /\ UNCHANGED vars

\* process_paragraph_standard: the replacement runs made for one match
DistributeStandard ==
    /\ call.fn = "standard distribution" /\ result = NoResult
    /\ LET lens == [k \in 1..Len(call.runs) |-> Len(RunText(call.runs[k]))]
       IN result' = [kind |-> "returned",
                     value |-> Distribute(call.runs, lens, call.new_text, Len(call.runs) + 1)]
    /\ UNCHANGED <<call, file, styles>>
    /\ UNCHANGED vars

\* process_paragraph_xml: the replacement runs made for one match
DistributeXml ==
    /\ call.fn = "xml distribution" /\ result = NoResult
    /\ result' = [kind |-> "returned",
                  value |-> Distribute(call.runs, call.lens, call.new_text, Len(call.runs) + 1)]
    /\ UNCHANGED <<call, file, styles>>
    /\ UNCHANGED vars

UnitNext ==
    \/ SplitRunAt
    \/ Normalize
    \/ NormalizeAgain
    \/ MatchScan
    \/ BuildDirectIndex
    \/ BuildXmlRunMap
    \/ CloneRunWithText
    \/ DistributeStandard
    \/ DistributeXml

UnitSpec == UnitInit /\ [][UnitNext]_<<vars, single>>

----------------------------------------------------------------------------
(* The block editing functions, each called once on a stored document *)

(* A stored document is the sequence of its body paragraphs; a paragraph is *)
(* its text, the name of its style and whether one of its runs is bold (the *)
(* "visually distinct" test of replace_block_between_manual_anchors).       *)

\* most paragraphs of a generated stored document
MaxParas == 3
\* most new paragraphs handed to a call
MaxNew == 2

\* str.lower on the characters in use
LowerChar(c) ==
    CASE c = "H" -> "h" [] c = "T" -> "t" [] c = "O" -> "o" [] c = "C" -> "c"
      [] c = "N" -> "n" [] c = "F" -> "f" [] OTHER -> c

Lower(t) == [i \in 1..Len(t) |-> LowerChar(t[i])]

\* str.upper on the characters in use
UpperChar(c) ==
    CASE c = "h" -> "H" [] c = "t" -> "T" [] c = "o" -> "O" [] c = "c" -> "C"
      [] c = "n" -> "N" [] c = "f" -> "F" [] OTHER -> c

Upper(t) == [i \in 1..Len(t) |-> UpperChar(t[i])]

RECURSIVE LStrip(_)
LStrip(t) == IF t # <<>> /\ Head(t) = " " THEN LStrip(Tail(t)) ELSE t

RECURSIVE RStrip(_)
RStrip(t) == IF t # <<>> /\ t[Len(t)] = " " THEN RStrip(SubSeq(t, 1, Len(t) - 1)) ELSE t

\* str.strip
Strip(t) == LStrip(RStrip(t))

Heading1 == <<"H", "e", "a", "d", "i", "n", "g", " ", "1">>
\* a style name that a document may lack
Fancy == <<"F", "a", "n", "c", "y">>
\* no style argument given
None == <<>>

\* p.style.name.lower().startswith("toc")
IsTocLower(p) == StartsWith(Lower(p.style), <<"t", "o", "c">>)

\* is_toc_paragraph
is_toc_paragraph(p) == StartsWith(Upper(p.style), <<"T", "O", "C">>)

\* para.style.name.lower().startswith(('heading', 'título', 'toc'))
IsBlockEnd(p) ==
    \/ StartsWith(Lower(p.style), <<"h", "e", "a", "d", "i", "n", "g">>)
    \/ StartsWith(Lower(p.style), <<"t", "í", "t", "u", "l", "o">>)
    \/ StartsWith(Lower(p.style), <<"t", "o", "c">>)

\* the least element of a non-empty set of numbers
Least(S) == CHOOSE i \in S : \A j \in S : i <= j

\* the sequence with x put in at 0-based index i
InsertAt(seq, i, x) == SubSeq(seq, 1, i) \o <<x>> \o SubSeq(seq, i + 1, Len(seq))

\* the sequence without its element at 0-based index i
RemoveAt(seq, i) == SubSeq(seq, 1, i) \o SubSeq(seq, i + 2, Len(seq))

NewPara(text, style) == [text |-> text, style |-> style, bold |-> FALSE]

Returned(msg, d) == [kind |-> "returned", value |-> msg, saved |-> d]
Raised(err, d) == [kind |-> "raised", error |-> err, saved |-> d]

\* the anchor paragraph of the two insert functions: by index, or the first
\* paragraph outside the table of contents that holds target_text; -1: none,
\* -2: the index is invalid
FindTarget(d, c) ==
    IF c.target_paragraph_index # -1
    THEN (IF c.target_paragraph_index < 0 \/ c.target_paragraph_index >= Len(d)
          THEN -2 ELSE c.target_paragraph_index)
    ELSE LET hits == {i \in 0..(Len(d) - 1) :
                         /\ ~IsTocLower(d[i + 1])
                         /\ c.target_text # <<>>
                         /\ Contains(d[i + 1].text, c.target_text)}
         IN IF hits = {} THEN -1 ELSE Least(hits)

\* insert_header_near_text and insert_line_or_paragraph_near_text: what is
\* returned and what the file holds afterwards; style is the argument of
\* doc.add_paragraph, which raises KeyError for a name the catalog lacks
InsertNear(d, c, style, failed, done) ==
    IF ~c.exists THEN Returned("Document does not exist", d)
    ELSE LET at == FindTarget(d, c)
         IN IF at = -2 THEN Returned("Invalid target_paragraph_index", d)
            ELSE IF at = -1 THEN Returned("Target paragraph not found", d)
            ELSE LET st == IF style = None THEN d[at + 1].style ELSE style
                 IN IF style # None /\ style \notin styles THEN Returned(failed, d)
                    ELSE Returned(done,
                                  InsertAt(d, IF c.position = "before" THEN at ELSE at + 1,
                                           NewPara(c.new_text, st)))

RECURSIVE RemoveLoop(_, _, _, _, _)
\* delete_block_under_header, the removal loop: for i in range(header_idx + 1,
\* end_idx), the paragraph after the header is removed as long as i is below
\* the number of paragraphs the document has by then
RemoveLoop(d, header_idx, i, end_idx, removed_count) ==
    IF i >= end_idx THEN [doc |-> d, removed |-> removed_count]
    ELSE IF i < Len(d)
         THEN RemoveLoop(RemoveAt(d, header_idx + 1), header_idx, i + 1, end_idx,
                         removed_count + 1)
         ELSE RemoveLoop(d, header_idx, i + 1, end_idx, removed_count)

\* delete_block_under_header(doc, header_text): the document afterwards and
\* removed_count (header: -1 when no paragraph has the text)
delete_block_under_header(d, header_text) ==
    LET hits == {i \in 0..(Len(d) - 1) : Lower(Strip(d[i + 1].text)) = Lower(Strip(header_text))}
    IN IF hits = {} THEN [doc |-> d, removed |-> 0, header |-> -1]
       ELSE LET header_idx == Least(hits)
                ends == {i \in (header_idx + 1)..(Len(d) - 1) : IsBlockEnd(d[i + 1])}
                end_idx == IF ends = {} THEN Len(d) ELSE Least(ends)
                out == RemoveLoop(d, header_idx, header_idx + 1, end_idx, 0)
            IN [doc |-> out.doc, removed |-> out.removed, header |-> header_idx]

RECURSIVE InsertAfter(_, _, _, _)
\* the loop that adds the new paragraphs, each behind the one before
InsertAfter(d, at, texts, style) ==
    IF texts = <<>> THEN d
    ELSE InsertAfter(InsertAt(d, at + 1, NewPara(Head(texts), style)), at + 1, Tail(texts), style)

\* replace_paragraph_block_below_header
ReplaceBelowHeader(d, c) ==
    IF ~c.exists THEN Returned("Document not found", d)
    ELSE LET hits == {i \in 0..(Len(d) - 1) :
                         /\ Lower(Strip(d[i + 1].text)) = Lower(Strip(c.header_text))
                         /\ ~is_toc_paragraph(d[i + 1])}
         IN IF hits = {} THEN Returned("Header not found in document", d)
            ELSE LET header_idx == Least(hits)
                     del == delete_block_under_header(d, c.header_text)
                     \* header_para is an object: the removal took the
                     \* del.removed paragraphs behind del.header, so it is
                     \* either gone from the document or has moved up
                     gone == del.header < header_idx /\ header_idx <= del.header + del.removed
                     at == IF del.header < header_idx
                           THEN header_idx - del.removed ELSE header_idx
                     style_to_use == IF c.new_paragraph_style # None
                                     THEN c.new_paragraph_style ELSE Normal
                 IN IF c.new_paragraphs # <<>> /\ style_to_use \notin styles
                    THEN Raised("KeyError", d)
                    \* the new paragraphs become siblings of header_para:
                    \* outside the document when it has been removed
                    ELSE IF gone THEN Returned("Replaced content under header", del.doc)
                    ELSE Returned("Replaced content under header",
                                  InsertAfter(del.doc, at, c.new_paragraphs, style_to_use))

\* replace_block_between_manual_anchors
ReplaceBetweenAnchors(d, c) ==
    IF ~c.exists THEN Returned("Document not found", d)
    ELSE LET starts == {i \in 0..(Len(d) - 1) : Strip(d[i + 1].text) = Strip(c.start_anchor_text)}
         IN IF starts = {} THEN Returned("Start anchor not found", d)
            ELSE LET start_idx == Least(starts)
                     ends == {i \in (start_idx + 1)..(Len(d) - 1) :
                                 IF c.end_anchor_text # None
                                 THEN Strip(d[i + 1].text) = Strip(c.end_anchor_text)
                                 ELSE d[i + 1].bold}
                     end_idx == IF ends = {} THEN Len(d) ELSE Least(ends)
                     \* saved once with the block removed, then loaded again
                     cut == SubSeq(d, 1, start_idx + 1) \o SubSeq(d, end_idx + 1, Len(d))
                     style_to_use == IF c.new_paragraph_style # None
                                     THEN c.new_paragraph_style ELSE Normal
                 IN IF c.new_paragraphs # <<>> /\ style_to_use \notin styles
                    THEN Raised("KeyError", cut)
                    ELSE Returned("Replaced content between anchors",
                                  InsertAfter(cut, start_idx, c.new_paragraphs, style_to_use))

ListNumber == <<"L", "i", "s", "t", " ", "N", "u", "m", "b", "e", "r">>
ListParagraph == <<"L", "i", "s", "t", " ", "P", "a", "r", "a", "g", "r", "a", "p", "h">>

\* the sequence in reverse order
Reverse(seq) == [i \in 1..Len(seq) |-> seq[Len(seq) + 1 - i]]

RECURSIVE MoveLoop(_, _, _, _)
\* insert_numbered_list_near_text, the loop over reversed(new_paras): each
\* paragraph becomes the sibling directly before (addprevious) or directly
\* after (addnext) the anchor, which is at 0-based index at
MoveLoop(d, at, ps, position) ==
    IF ps = <<>> THEN d
    ELSE IF position = "before"
         THEN MoveLoop(InsertAt(d, at, Head(ps)), at + 1, Tail(ps), position)
         ELSE MoveLoop(InsertAt(d, at + 1, Head(ps)), at, Tail(ps), position)

\* insert_numbered_list_near_text
InsertNumberedList(d, c) ==
    IF ~c.exists THEN Returned("Document does not exist", d)
    ELSE LET at == FindTarget(d, c)
         IN IF at = -2 THEN Returned("Invalid target_paragraph_index", d)
            ELSE IF at = -1 THEN Returned("Target paragraph not found", d)
            ELSE LET style_name == IF ListNumber \in styles THEN ListNumber
                                   ELSE IF ListParagraph \in styles THEN ListParagraph
                                   ELSE Normal
                     new_paras == [i \in 1..Len(c.list_items) |->
                                      NewPara(c.list_items[i], style_name)]
                 IN Returned("Numbered list inserted",
                             MoveLoop(d, at, Reverse(new_paras), c.position))

\* the paragraphs a generated document is made of
ParaKinds ==
    {[text |-> <<"h">>, style |-> Normal, bold |-> FALSE],
     [text |-> <<"h">>, style |-> TOC1, bold |-> FALSE],
     [text |-> <<"x">>, style |-> Normal, bold |-> FALSE],
     [text |-> <<"x">>, style |-> Normal, bold |-> TRUE],
     [text |-> <<"x">>, style |-> Heading1, bold |-> FALSE]}

StoredDocs == UNION {[1..n -> ParaKinds] : n \in 0..MaxParas}

\* the style catalog: the styles of the template, with or without Fancy
Catalogs == {{Normal, Heading1, TOC1}, {Normal, Heading1, TOC1, Fancy}}

NewParagraphs == {[i \in 1..n |-> <<"n">>] : n \in 0..MaxNew}

\* the targets of the insert functions: a text, or an index (-1: none given)
Targets ==
    {[target_text |-> t, target_paragraph_index |-> -1] : t \in {<<"h">>, <<"x">>}}
    \cup {[target_text |-> <<>>, target_paragraph_index |-> i] : i \in {0, MaxParas}}

InsertHeaderCalls ==
    {[fn |-> "insert_header_near_text", exists |-> e,
      target_text |-> t.target_text, target_paragraph_index |-> t.target_paragraph_index,
      new_text |-> <<"t">>, position |-> pos, style |-> st] :
        e \in BOOLEAN, t \in Targets, pos \in {"before", "after"}, st \in {Heading1, Fancy}}

InsertLineCalls ==
    {[fn |-> "insert_line_or_paragraph_near_text", exists |-> e,
      target_text |-> t.target_text, target_paragraph_index |-> t.target_paragraph_index,
      new_text |-> <<"t">>, position |-> pos, style |-> st] :
        e \in BOOLEAN, t \in Targets, pos \in {"before", "after"}, st \in {None, Heading1, Fancy}}

ReplaceBelowCalls ==
    {[fn |-> "replace_paragraph_block_below_header", exists |-> e,
      header_text |-> h, new_paragraphs |-> ps, new_paragraph_style |-> st] :
        e \in BOOLEAN, h \in {<<"h">>, <<"H", " ">>, <<"x">>}, ps \in NewParagraphs,
        st \in {None, Fancy}}

ReplaceBetweenCalls ==
    {[fn |-> "replace_block_between_manual_anchors", exists |-> e,
      start_anchor_text |-> a, end_anchor_text |-> b,
      new_paragraphs |-> ps, new_paragraph_style |-> st] :
        e \in BOOLEAN, a \in {<<"h">>, <<"x", " ">>}, b \in {None, <<"x">>},
        ps \in NewParagraphs, st \in {None, Fancy}}

\* the calls of delete_block_under_header, which is handed a loaded document
DeleteBlockCalls ==
    {[fn |-> "delete_block_under_header", header_text |-> h] :
        h \in {<<"h">>, <<"H", " ">>, <<"x">>}}

\* list items that can be told apart: item i is the digit "1" written i times
ListItems == {[i \in 1..n |-> [j \in 1..i |-> "1"]] : n \in 0..MaxNew}

InsertListCalls ==
    {[fn |-> "insert_numbered_list_near_text", exists |-> e,
      target_text |-> t.target_text, target_paragraph_index |-> t.target_paragraph_index,
      list_items |-> items, position |-> pos] :
        e \in BOOLEAN, t \in Targets, items \in ListItems, pos \in {"before", "after"}}

\* a call on a missing file is generated once per function
OncePerMissing(c) ==
    c.exists \/ ( /\ c.fn \in {"insert_header_near_text", "insert_line_or_paragraph_near_text"}
                     => c.position = "after" /\ c.target_paragraph_index = 0 /\ c.style = Fancy
                  /\ c.fn = "insert_numbered_list_near_text"
                     => c.position = "after" /\ c.target_paragraph_index = 0
                        /\ c.list_items = <<>>
                  /\ c.fn \in {"replace_paragraph_block_below_header",
                               "replace_block_between_manual_anchors"}
                     => c.new_paragraphs = <<>> /\ c.new_paragraph_style = None
                  /\ c.fn = "replace_paragraph_block_below_header" => c.header_text = <<"h">>
                  /\ c.fn = "replace_block_between_manual_anchors"
                     => c.start_anchor_text = <<"h">> /\ c.end_anchor_text = None )

EditInit ==
    /\ ReplaceIdle
    /\ file \in StoredDocs
    /\ styles \in Catalogs
    /\ result = NoResult
    /\ \/ call \in InsertHeaderCalls /\ OncePerMissing(call)
       \/ call \in InsertLineCalls /\ OncePerMissing(call)
       \/ call \in ReplaceBelowCalls /\ OncePerMissing(call)
       \/ call \in ReplaceBetweenCalls /\ OncePerMissing(call)
       \/ call \in InsertListCalls /\ OncePerMissing(call)
       \/ call \in DeleteBlockCalls

\* insert_header_near_text
InsertHeaderNearText ==
    /\ call.fn = "insert_header_near_text" /\ result = NoResult
    /\ result' = InsertNear(file, call, call.style, "Failed to insert header", "Header inserted")
    /\ file' = result'.saved
    /\ UNCHANGED <<call, styles>>
    /\ UNCHANGED vars

\* insert_line_or_paragraph_near_text
InsertLineOrParagraphNearText ==
    /\ call.fn = "insert_line_or_paragraph_near_text" /\ result = NoResult
    /\ result' = InsertNear(file, call, call.style, "Failed to insert line/paragraph",
                            "Line/paragraph inserted")
    /\ file' = result'.saved
    /\ UNCHANGED <<call, styles>>
    /\ UNCHANGED vars

\* replace_paragraph_block_below_header
ReplaceParagraphBlockBelowHeader ==
    /\ call.fn = "replace_paragraph_block_below_header" /\ result = NoResult
    /\ result' = ReplaceBelowHeader(file, call)
    /\ file' = result'.saved
    /\ UNCHANGED <<call, styles>>
    /\ UNCHANGED vars

\* replace_block_between_manual_anchors
ReplaceBlockBetweenManualAnchors ==
    /\ call.fn = "replace_block_between_manual_anchors" /\ result = NoResult
    /\ result' = ReplaceBetweenAnchors(file, call)
    /\ file' = result'.saved
    /\ UNCHANGED <<call, styles>>
    /\ UNCHANGED vars

\* delete_block_under_header on the loaded document; nothing is saved
DeleteBlockUnderHeader ==
    /\ call.fn = "delete_block_under_header" /\ result = NoResult
    /\ LET del == delete_block_under_header(file, call.header_text)
       IN result' = [kind |-> "returned", header |-> del.header,
                     removed_count |-> del.removed, doc |-> del.doc]
    /\ UNCHANGED <<call, file, styles>>
    /\ UNCHANGED vars

\* insert_numbered_list_near_text
InsertNumberedListNearText ==
    /\ call.fn = "insert_numbered_list_near_text" /\ result = NoResult
    /\ result' = InsertNumberedList(file, call)
    /\ file' = result'.saved
    /\ UNCHANGED <<call, styles>>
    /\ UNCHANGED vars

EditNext ==
    \/ InsertHeaderNearText
    \/ InsertLineOrParagraphNearText
    \/ ReplaceParagraphBlockBelowHeader
    \/ ReplaceBlockBetweenManualAnchors
    \/ DeleteBlockUnderHeader
    \/ InsertNumberedListNearText

EditSpec == EditInit /\ [][EditNext]_<<vars, single>>

----------------------------------------------------------------------------
(* The picture tools, each called once on a stored document *)

(* A stored document is the sequence of its paragraphs in document order; a *)
(* paragraph is where it sits (body or table cell), its alignment and the   *)
(* inline pictures of its runs in order, each with its size in inches. An   *)
(* inline picture always has its wp:extent.                                  *)

\* most paragraphs of a generated document with pictures
MaxPicParas == 2
\* most pictures of one paragraph
MaxPics == 2

\* an optional number that is not given
Unset == -1

\* the pictures of the document in the order of list_pictures, resize_picture
\* and process_pictures_by_size: every drawing of every run of the body
\* paragraphs, then of the paragraphs of the table cells
PictureList(d) ==
    LET v == Visit(d)
    IN Concat([n \in 1..Len(v) |->
                  [j \in 1..Len(d[v[n]].pics) |-> [para |-> v[n], pos |-> j]]])

\* align_picture, picture_paragraphs: a paragraph is appended once when one
\* of its runs holds a drawing
PictureParagraphs(d) == SelectSeq(Visit(d), LAMBDA k : d[k].pics # <<>>)

\* what the tools return before they load the document ("": they go on)
AccessFailure(access, writes) ==
    IF access = "missing" THEN "Document does not exist"
    ELSE IF writes /\ access = "read-only" THEN "Cannot modify document"
    ELSE ""

\* list_pictures: the entries of pictures_info
list_pictures(d, access) ==
    IF AccessFailure(access, FALSE) # ""
    THEN Returned(AccessFailure(access, FALSE), d)
    ELSE LET pics == PictureList(d)
         IN IF pics = <<>> THEN Returned("No pictures found", d)
            ELSE [kind |-> "returned", value |-> "Found picture(s)", saved |-> d,
                  pictures_info |->
                      [n \in 1..Len(pics) |->
                          [index |-> n - 1,
                           para |-> pics[n].para,
                           width_inches |-> d[pics[n].para].pics[pics[n].pos].width,
                           height_inches |-> d[pics[n].para].pics[pics[n].pos].height,
                           alignment |-> d[pics[n].para].alignment]]]

\* resize_picture with both width and height given
resize_picture(d, access, picture_index, width, height) ==
    IF AccessFailure(access, TRUE) # ""
    THEN Returned(AccessFailure(access, TRUE), d)
    ELSE LET pictures == PictureList(d)
         IN IF pictures = <<>> THEN Returned("No pictures found", d)
            ELSE IF picture_index < 0 \/ picture_index >= Len(pictures)
            THEN Returned("Invalid picture index", d)
            ELSE LET at == pictures[picture_index + 1]
                     old == d[at.para].pics
                     new == SubSeq(old, 1, at.pos - 1)
                            \o <<[width |-> width, height |-> height]>>
                            \o SubSeq(old, at.pos + 1, Len(old))
                 IN Returned("Picture resized successfully",
                             [k \in 1..Len(d) |->
                                 IF k = at.para THEN [pics |-> new, loc |-> d[k].loc,
                                                      alignment |-> d[k].alignment]
                                 ELSE d[k]])

\* align_picture
align_picture(d, access, picture_index, alignment) ==
    IF AccessFailure(access, TRUE) # ""
    THEN Returned(AccessFailure(access, TRUE), d)
    ELSE LET picture_paragraphs == PictureParagraphs(d)
         IN IF picture_paragraphs = <<>> THEN Returned("No pictures found", d)
            ELSE IF picture_index < 0 \/ picture_index >= Len(picture_paragraphs)
            THEN Returned("Invalid picture index", d)
            ELSE LET target_paragraph == picture_paragraphs[picture_index + 1]
                 IN Returned("Picture aligned successfully",
                             [k \in 1..Len(d) |->
                                 IF k = target_paragraph
                                 THEN [pics |-> d[k].pics, loc |-> d[k].loc,
                                       alignment |-> alignment]
                                 ELSE d[k]])

RECURSIVE align_pictures_batch(_, _, _, _)
\* align_pictures_batch: align_picture for each index in turn, each call on
\* the file the call before it saved
align_pictures_batch(d, access, picture_indices, alignment) ==
    IF picture_indices = <<>> THEN d
    ELSE align_pictures_batch(align_picture(d, access, Head(picture_indices), alignment).saved,
                              access, Tail(picture_indices), alignment)

\* process_pictures_by_size, the filter: does a picture match the criteria
MatchesCriteria(pic, c) ==
    /\ ~(c.min_width # Unset /\ pic.width_inches < c.min_width)
    /\ ~(c.max_width # Unset /\ pic.width_inches > c.max_width)
    /\ ~(c.min_height # Unset /\ pic.height_inches < c.min_height)
    /\ ~(c.max_height # Unset /\ pic.height_inches > c.max_height)

\* process_pictures_by_size without resize_width and resize_height
process_pictures_by_size(d, c) ==
    IF AccessFailure(c.access, FALSE) # ""
    THEN Returned(AccessFailure(c.access, FALSE), d)
    ELSE LET listed == list_pictures(d, c.access)
         IN IF listed.value = "No pictures found" THEN Returned("No pictures found", d)
            ELSE LET hits == SelectSeq(listed.pictures_info,
                                       LAMBDA pic : MatchesCriteria(pic, c))
                     filtered_indices == [n \in 1..Len(hits) |-> hits[n].index]
                 IN IF filtered_indices = <<>> THEN Returned("No pictures match the criteria", d)
                    ELSE IF c.alignment = "" THEN Returned("Found matching picture(s)", d)
                    ELSE Returned("Processed picture(s)",
                                  align_pictures_batch(d, c.access, filtered_indices,
                                                       c.alignment))

\* the pictures of a generated document: one or two inches wide, one inch high
PicKinds == {[width |-> w, height |-> 1] : w \in {1, 2}}

PicParaKinds ==
    {[loc |-> l, alignment |-> "undefined", pics |-> ps] :
        l \in {"body", "cell"}, ps \in UNION {[1..n -> PicKinds] : n \in 0..MaxPics}}

PicDocs == UNION {[1..n -> PicParaKinds] : n \in 1..MaxPicParas}

\* the file is there and writeable, is missing, or cannot be written
Accesses == {"ok", "missing", "read-only"}

\* the picture indices handed to the tools: every one a document can have,
\* and the first that none has
PictureIndices == 0..(MaxPicParas * MaxPics)

ListCalls == {[fn |-> "list_pictures", access |-> a] : a \in Accesses}

ResizeCalls ==
    {[fn |-> "resize_picture", access |-> a, picture_index |-> i, width |-> 3, height |-> 3] :
        a \in Accesses, i \in PictureIndices}

AlignCalls ==
    {[fn |-> "align_picture", access |-> a, picture_index |-> i, alignment |-> "center"] :
        a \in Accesses, i \in PictureIndices}

ProcessCalls ==
    {[fn |-> "process_pictures_by_size", access |-> a,
      min_width |-> lo, max_width |-> hi, min_height |-> Unset, max_height |-> Unset,
      alignment |-> al] :
        a \in Accesses, lo \in {Unset, 2}, hi \in {Unset, 1}, al \in {"", "center"}}

PictureInit ==
    /\ ReplaceIdle
    /\ file \in PicDocs
    /\ styles = {}
    /\ result = NoResult
    /\ \/ call \in ListCalls
       \/ call \in ResizeCalls
       \/ call \in AlignCalls
       \/ call \in ProcessCalls
    \* a call on a file that is missing or cannot be written is generated for
    \* the documents of one paragraph only
    /\ call.access # "ok" => Len(file) = 1

\* list_pictures
ListPictures ==
    /\ call.fn = "list_pictures" /\ result = NoResult
    /\ result' = list_pictures(file, call.access)
    /\ UNCHANGED <<call, file, styles>>
    /\ UNCHANGED vars

\* resize_picture
ResizePicture ==
    /\ call.fn = "resize_picture" /\ result = NoResult
    /\ result' = resize_picture(file, call.access, call.picture_index, call.width, call.height)
    /\ file' = result'.saved
    /\ UNCHANGED <<call, styles>>
    /\ UNCHANGED vars

\* align_picture
AlignPicture ==
    /\ call.fn = "align_picture" /\ result = NoResult
    /\ result' = align_picture(file, call.access, call.picture_index, call.alignment)
    /\ file' = result'.saved
    /\ UNCHANGED <<call, styles>>
    /\ UNCHANGED vars

\* process_pictures_by_size
ProcessPicturesBySize ==
    /\ call.fn = "process_pictures_by_size" /\ result = NoResult
    /\ result' = process_pictures_by_size(file, call)
    /\ file' = result'.saved
    /\ UNCHANGED <<call, styles>>
    /\ UNCHANGED vars

PictureNext ==
    \/ ListPictures
    \/ ResizePicture
    \/ AlignPicture
    \/ ProcessPicturesBySize

PictureSpec == PictureInit /\ [][PictureNext]_<<vars, single>>

----------------------------------------------------------------------------
(* What the claims speak about *)

\* the search text as the strategies compare it
Needle == normalize_text_for_search(old_text)

\* the flattened text of a paragraph: the normalized text of its runs, in
\* document order
Flat(p) == normalize_text_for_search(ParaText(p))

\* paragraph i has been processed by find_and_replace_text_preserve_formatting
Finished(i) ==
    /\ called = "preserve"
    /\ \E k \in 1..idx : Visit(doc)[k] = i

\* all runs of the paragraph are direct children
OnlyDirect(p) == \A k \in 1..Len(p.runs) : p.runs[k].wrap = 0

\* no run of the paragraph holds an invisible character
VisibleOnly(p) ==
    \A k \in 1..Len(p.runs) :
        normalize_text_for_search(RunText(p.runs[k])) = RunText(p.runs[k])

\* the text with the span [s, e) replaced by r
Spliced(t, s, e, r) == Slice(t, 0, s) \o r \o Slice(t, e, Len(t))

\* the occurrences of the search text in the text the strategy searched
Occurrences(i) ==
    IF hist[i].strategy = "xml" THEN FindAll(XmlFullText(doc0[i]), Needle)
    ELSE FindAll(DirectFullText(doc0[i]), Needle)

----------------------------------------------------------------------------
(* C1 *)

\* C1: a paragraph of direct runs (of visible characters) whose flattened text
\* holds the search text once, at [s, s+m): after the call with a non-empty
\* replacement r the flattened text is old[0..s) + r + old[s+m..]
C1_TextConservation ==
    \A i \in 1..Len(doc) :
        ( /\ Finished(i)
          /\ hist[i].strategy = "standard"
          /\ OnlyDirect(doc0[i]) /\ VisibleOnly(doc0[i])
          /\ Needle # <<>> /\ new_text # <<>>
          /\ Len(Occurrences(i)) = 1 )
        => Flat(doc[i]) = Spliced(Flat(doc0[i]), Occurrences(i)[1].s, Occurrences(i)[1].e, new_text)

----------------------------------------------------------------------------
(* C2 *)

\* C2: a match found only by the tree traversal (once in the paragraph): the
\* text before match_start and the text from match_end on are still in the
\* paragraph, in order, around what replaced the match
C2_WrappedSpanOnly ==
    \A i \in 1..Len(doc) :
        ( /\ Finished(i)
          /\ hist[i].strategy = "xml"
          /\ Len(Occurrences(i)) = 1 )
        => LET t0 == XmlFullText(doc0[i])
               t1 == XmlFullText(doc[i])
               m == Occurrences(i)[1]
               tail == Len(t0) - m.e
           IN /\ Len(t1) >= m.s + tail
              /\ Slice(t1, 0, m.s) = Slice(t0, 0, m.s)
              /\ Slice(t1, Len(t1) - tail, Len(t1)) = Slice(t0, m.e, Len(t0))

----------------------------------------------------------------------------
(* C3 *)

\* the first and the last character of the text are visible, one in between
\* is not
InvisibleInside(t) ==
    /\ Len(t) >= 3
    /\ normalize_text_for_search(<<t[1]>>) = <<t[1]>>
    /\ normalize_text_for_search(<<t[Len(t)]>>) = <<t[Len(t)]>>
    /\ normalize_text_for_search(t) # t

\* C3: a paragraph of one direct run whose text is the searched word with an
\* invisible character inside: after the call the paragraph's text is exactly
\* the (non-empty) replacement text
C3_InvisibleEquivalence ==
    \A i \in 1..Len(doc) :
        ( /\ Finished(i)
          /\ hist[i].strategy = "standard"
          /\ Len(doc0[i].runs) = 1 /\ OnlyDirect(doc0[i])
          /\ InvisibleInside(ParaText(doc0[i]))
          /\ Flat(doc0[i]) = Needle
          /\ new_text # <<>> )
        => ParaText(doc[i]) = new_text

----------------------------------------------------------------------------
(* C4 *)

\* no two of the occurrences overlap
NonOverlapping(ms) == \A j \in 1..(Len(ms) - 1) : ms[j].e <= ms[j + 1].s

\* C4: a paragraph of direct runs whose flattened text holds k >= 1 pairwise
\* non-overlapping occurrences of the search text: the call adds k to the
\* count and the flattened text afterwards is the old one with every
\* occurrence replaced
C4_MultipleMatches ==
    \A i \in 1..Len(doc) :
        ( /\ Finished(i)
          /\ hist[i].strategy = "standard"
          /\ OnlyDirect(doc0[i])
          /\ Needle # <<>>
          /\ Occurrences(i) # <<>>
          /\ NonOverlapping(Occurrences(i)) )
        => /\ hist[i].added = Len(Occurrences(i))
           /\ Flat(doc[i]) = StrReplace(Flat(doc0[i]), Needle, new_text)

----------------------------------------------------------------------------
(* C5 *)

\* the texts of the runs of paragraph i, as the strategy that handled it
\* flattened them; a run the strategy does not see has no text
SeenTexts(i) ==
    [k \in 1..Len(doc0[i].runs) |->
        IF hist[i].strategy = "xml" THEN XmlTexts(doc0[i])[k]
        ELSE IF doc0[i].runs[k].wrap = 0
             THEN normalize_text_for_search(RunText(doc0[i].runs[k]))
             ELSE <<>>]

\* the run at position k of paragraph i lies outside every match span
OutsideMatches(i, k) ==
    LET start == LenUpTo(SeenTexts(i), k - 1)
        end == LenUpTo(SeenTexts(i), k)
        ms == Occurrences(i)
    IN \A j \in 1..Len(ms) : end <= ms[j].s \/ start >= ms[j].e

\* C5: the runs that lie outside every match span are still there after the
\* call, each with its text and style, in the same order
C5_FormattingPreserved ==
    \A i \in 1..Len(doc) :
        ( /\ Finished(i)
          /\ hist[i].strategy \in {"standard", "xml"}
          /\ Needle # <<>> )
        => LET outside == {doc0[i].runs[k].id : k \in {j \in 1..Len(doc0[i].runs) : OutsideMatches(i, j)}}
           IN SelectSeq(doc[i].runs, LAMBDA r : r.id \in outside)
              = SelectSeq(doc0[i].runs, LAMBDA r : r.id \in outside)

----------------------------------------------------------------------------
(* C6 *)

RECURSIVE SumAdded(_, _)
\* what the first k paragraphs added to the count
SumAdded(h, k) == IF k = 0 THEN 0 ELSE SumAdded(h, k - 1) + h[k].added

\* C6: a paragraph whose style name starts with "TOC", in the body or in a
\* table cell, is never modified by either function and adds nothing to the
\* count
C6_TOCExclusion ==
    /\ count = SumAdded(hist, Len(hist))
    /\ \A i \in 1..Len(doc) :
          StartsWith(doc0[i].style, <<"T", "O", "C">>)
          => doc[i] = doc0[i] /\ hist[i].added = 0

\* a call has returned a count above zero for a document with a TOC paragraph
\* that holds the search text
C6_Witness ==
    /\ pc = "returned"
    /\ count > 0
    /\ old_text # <<>> /\ Needle # <<>>
    /\ \E i \in 1..Len(doc) :
          /\ StartsWith(doc0[i].style, <<"T", "O", "C">>)
          /\ Contains(ParaText(doc0[i]), old_text)
          /\ Contains(Flat(doc0[i]), Needle)

----------------------------------------------------------------------------
(* C7 *)

\* the text and the style of every run of a paragraph
TextsAndStyles(p) == [k \in 1..Len(p.runs) |-> <<RunText(p.runs[k]), p.runs[k].style>>]

\* the (single) match of paragraph i starts inside one run and ends inside a
\* later run
CrossRun(i) ==
    LET m == Occurrences(i)[1]
        hit == AffectedRuns(DirectRunMap(doc0[i]), m.s, m.e)
        last == hit[Len(hit)]
    IN /\ Len(hit) >= 2
       /\ hit[1].overlap_start > 0
       /\ last.overlap_end < Len(normalize_text_for_search(RunText(last.run)))

\* C7: "Hello " / "world" (bold) / "!" with "lo wor" replaced by "LO-WOR"
\* reads "HelLO-WORld!", "Hel" and "!" roman and "ld" bold; and every match
\* that starts inside one run and ends inside a later run is replaced without
\* a character outside the match being lost
C7_CrossRunReplacement ==
    /\ (doc0 = HelloScenario.doc /\ Finished(1))
       => LET ts == TextsAndStyles(doc[1])
          IN /\ ParaText(doc[1]) = <<"H", "e", "l", "L", "O", "-", "W", "O", "R", "l", "d", "!">>
             /\ ts[1] = <<(<<"H", "e", "l">>), "roman">>
             /\ ts[Len(ts) - 1] = <<(<<"l", "d">>), "bold">>
             /\ ts[Len(ts)] = <<(<<"!">>), "roman">>
    /\ \A i \in 1..Len(doc) :
          ( /\ Finished(i)
            /\ hist[i].strategy = "standard"
            /\ OnlyDirect(doc0[i])
            /\ Needle # <<>>
            /\ Len(Occurrences(i)) = 1
            /\ CrossRun(i) )
          => Flat(doc[i]) = Spliced(Flat(doc0[i]), Occurrences(i)[1].s, Occurrences(i)[1].e, new_text)

----------------------------------------------------------------------------
(* C8 *)

\* the text of a paragraph as the strategy reads it
SeenText(p, strategy) == IF strategy = "xml" THEN XmlFullText(p) ELSE DirectFullText(p)

\* C8: with the empty replacement text the match (of a paragraph of visible
\* characters that holds the search text once) is deleted: the text
\* afterwards is the old text without the matched span
C8_EmptyReplacementDeletes ==
    \A i \in 1..Len(doc) :
        ( /\ Finished(i)
          /\ hist[i].strategy \in {"standard", "xml"}
          /\ VisibleOnly(doc0[i])
          /\ new_text = <<>>
          /\ Needle # <<>>
          /\ Len(Occurrences(i)) = 1 )
        => SeenText(doc[i], hist[i].strategy)
           = Spliced(SeenText(doc0[i], hist[i].strategy),
                     Occurrences(i)[1].s, Occurrences(i)[1].e, <<>>)

----------------------------------------------------------------------------
(* C9 *)

\* the search text, normalized, occurs in the paragraph under one of the two
\* strategies
Occurs(p) ==
    /\ Needle # <<>>
    /\ Contains(DirectFullText(p), Needle) \/ Contains(XmlFullText(p), Needle)

\* C9: a paragraph in which the normalized search text is empty or absent
\* under both strategies keeps its runs as they were and adds nothing to the
\* count
C9_EmptyOrAbsentNeedle ==
    \A i \in 1..Len(doc) :
        (called = "preserve" /\ ~Occurs(doc0[i]))
        => doc[i] = doc0[i] /\ hist[i].added = 0

----------------------------------------------------------------------------
(* C10 *)

\* C10: find_and_replace_text_preserve_formatting never raises: no call ends
\* in an exception that leaves paragraphs unprocessed
C10_NeverRaises == pc # "raised"

----------------------------------------------------------------------------
(* C11 *)

\* C11: when find_and_replace_text_preserve_formatting has returned, the
\* paragraph rewriter has been applied to every paragraph of the document:
\* the body paragraphs, the paragraphs of the table cells and the paragraphs
\* of the tables nested in table cells
C11_DocumentCoverage ==
    (called = "preserve" /\ pc = "returned")
    => \A i \in 1..Len(doc) : hist[i].strategy # "none"

----------------------------------------------------------------------------
(* C12 *)

\* C12: split_run_at on a run with text T (tab characters included) and an
\* offset k in 0..len(T) returns (T[:k], T[k:]); for k = 0 and k = len(T) the
\* runs are as before; otherwise the run keeps T[:k], a new run of the same
\* style with the text T[k:] follows it at once, the other runs are as they
\* were, and the text of the paragraph is the same as before
C12_SplitConservation ==
    (call.fn = "split_run_at" /\ result.kind = "returned")
    => LET before == call.para
           after == result.para
           pos == call.pos
           k == call.split_index
           T == RunText(before.runs[pos])
       IN /\ result.value = <<Slice(T, 0, k), Slice(T, k, Len(T))>>
          /\ (k = 0 \/ k = Len(T)) => after.runs = before.runs
          /\ (0 < k /\ k < Len(T)) =>
                /\ Len(after.runs) = Len(before.runs) + 1
                /\ RunText(after.runs[pos]) = Slice(T, 0, k)
                /\ RunText(after.runs[pos + 1]) = Slice(T, k, Len(T))
                /\ after.runs[pos].style = before.runs[pos].style
                /\ after.runs[pos + 1].style = before.runs[pos].style
                /\ SubSeq(after.runs, 1, pos - 1) = SubSeq(before.runs, 1, pos - 1)
                /\ SubSeq(after.runs, pos + 2, Len(after.runs))
                   = SubSeq(before.runs, pos + 1, Len(before.runs))
          /\ ParaText(after) = ParaText(before)

----------------------------------------------------------------------------
(* C13 *)

\* the characters that are removed: zero-width space, non-joiner and joiner,
\* soft hyphen, byte-order mark
Removed == {"ZWSP", "ZWNJ", "ZWJ", "SHY", "BOM"}

\* the text without the removed characters, every non-breaking space turned
\* into a space
Visible(t) ==
    LET kept == SelectSeq(t, LAMBDA c : c \notin Removed)
    IN [i \in 1..Len(kept) |-> IF kept[i] = "NBSP" THEN " " ELSE kept[i]]

\* C13: normalize_text_for_search(s) holds none of the invisible characters
\* and no non-breaking space, keeps every other character in order (a space
\* for every non-breaking space), and normalizing the result gives the result
C13_NormalizeIdempotent ==
    (call.fn = "normalize_text_for_search" /\ result.kind \in {"returned", "returned twice"})
    => /\ \A i \in 1..Len(result.value) : result.value[i] \notin Removed \cup {"NBSP"}
       /\ result.value = Visible(call.text)
       /\ result.kind = "returned twice" => result.again = result.value

\* a text with twice the same invisible character and a non-breaking space
\* has been normalized twice, to a single space
C13_Witness ==
    /\ call.fn = "normalize_text_for_search" /\ result.kind = "returned twice"
    /\ \E i, j, k \in 1..Len(call.text) :
          /\ i # j /\ call.text[i] \in Removed /\ call.text[j] = call.text[i]
          /\ call.text[k] = "NBSP"
    /\ Len(result.again) = 1

----------------------------------------------------------------------------
(* C14 *)

\* C14: for a non-empty search text the scan records the span
\* (p, p + len(needle)) of every position p at which the search text occurs
\* in the flattened text, in ascending order of p, overlapping occurrences
\* included; "aa" in "aaaa" gives matches at 0 and at 1
C14_OverlapPolicy ==
    (call.fn = "match scan" /\ result.kind = "returned" /\ call.old_text_norm # <<>>)
    => LET h == call.full_text
           n == call.old_text_norm
           ms == result.value
       IN /\ \A j \in 1..Len(ms) : OccursAt(h, n, ms[j].s) /\ ms[j].e = ms[j].s + Len(n)
          /\ \A j \in 1..(Len(ms) - 1) : ms[j].s < ms[j + 1].s
          /\ \A p \in 0..Len(h) : OccursAt(h, n, p) => \E j \in 1..Len(ms) : ms[j].s = p
          /\ (h = <<"a", "a", "a", "a">> /\ n = <<"a", "a">>)
                => /\ Len(ms) >= 2
                   /\ ms[1] = [s |-> 0, e |-> 2]
                   /\ ms[2] = [s |-> 1, e |-> 3]

\* "aa" has been searched in "aaaa"
C14_Witness ==
    /\ call.fn = "match scan" /\ result.kind = "returned"
    /\ call.full_text = <<"a", "a", "a", "a">> /\ call.old_text_norm = <<"a", "a">>
    /\ Len(result.value) > 1

----------------------------------------------------------------------------
(* C15 *)

\* an index has been built for the paragraph of the call
IndexBuilt == call.fn \in {"direct index", "build_xml_run_map"} /\ result.kind = "returned"

\* the position, among the runs of the paragraph, of the run a span refers to
SpanPos(sp) ==
    IF call.fn = "direct index" THEN DirectPos(call.para)[sp.ref + 1]
    ELSE PosOfId(call.para, sp.ref)

\* C15: the span list built by either strategy is in document order, starts
\* at 0, is contiguous (each start is the end before it), ends at the length
\* of the flattened text, and every span is as long as the normalized text of
\* its run
C15_RunSpanInvariant ==
    IndexBuilt
    => LET spans == result.run_map
       IN /\ spans # <<>> => spans[1].start = 0 /\ spans[Len(spans)].end = Len(result.full_text)
          /\ \A j \in 1..(Len(spans) - 1) :
                /\ spans[j + 1].start = spans[j].end
                /\ SpanPos(spans[j]) < SpanPos(spans[j + 1])
          /\ \A j \in 1..Len(spans) :
                /\ spans[j].start <= spans[j].end
                /\ spans[j].run = call.para.runs[SpanPos(spans[j])]
                /\ spans[j].end - spans[j].start
                   = Len(normalize_text_for_search(RunText(spans[j].run)))

\* an index of two spans has been built for a paragraph with a zero-width
\* space and a tab
C15_Witness ==
    /\ IndexBuilt
    /\ Len(result.run_map) = 2
    /\ \E k \in 1..Len(ParaText(call.para)) : ParaText(call.para)[k] = "ZWSP"
    /\ \E k \in 1..Len(ParaText(call.para)) : ParaText(call.para)[k] = "TAB"

----------------------------------------------------------------------------
(* C16 *)

\* C16: under both strategies a run whose text is empty after normalization
\* gets no span: no span has start = end
C16_NoEmptySpan ==
    IndexBuilt
    => \A j \in 1..Len(result.run_map) :
          /\ result.run_map[j].start < result.run_map[j].end
          /\ normalize_text_for_search(RunText(result.run_map[j].run)) # <<>>

----------------------------------------------------------------------------
(* C17 *)

\* C17: with at least one covered run and a non-empty replacement text, the
\* texts of the clones, in the order of their insertion, make up the
\* replacement text exactly; no clone has an empty text; and there are no
\* more clones than covered runs or than characters to hand out
C17_DistributionConserves ==
    ( /\ call.fn \in {"standard distribution", "xml distribution"}
      /\ result.kind = "returned"
      /\ call.runs # <<>> /\ call.new_text # <<>> )
    => LET clones == result.value
       IN /\ Concat([k \in 1..Len(clones) |-> RunText(clones[k])]) = call.new_text
          /\ \A k \in 1..Len(clones) : RunText(clones[k]) # <<>>
          /\ Len(clones) <= Len(call.runs)
          /\ Len(clones) <= Len(call.new_text)

----------------------------------------------------------------------------
(* C18 *)

\* C18: whatever elements the source run holds (text, tabs, no text element
\* at all), clone_run_with_text returns a new run of the same style whose
\* text is the text handed in, and the source run is as it was, where it was
C18_CloneHoldsText ==
    (call.fn = "clone_run_with_text" /\ result.kind = "returned")
    => /\ result.value.style = call.para.runs[1].style
       /\ result.value.id # call.para.runs[1].id
       /\ RunText(result.value) = call.text
       /\ result.para = call.para

----------------------------------------------------------------------------
(* C19 *)

\* the text with a space for every tab character
TabsAsSpaces(t) == [i \in 1..Len(t) |-> IF t[i] = "TAB" THEN " " ELSE t[i]]

\* the runs a strategy reads: the direct children, or every run of the tree
RunsRead == IF call.fn = "direct index" THEN DirectRuns(call.para) ELSE call.para.runs

\* C19: in the flattened text of either strategy every tab character of a
\* run stands as one space, at its place: the run "a<tab>b" gives "a b", a
\* span of length 3
C19_TabsAsSpaces ==
    IndexBuilt
    => result.full_text
       = Concat([k \in 1..Len(RunsRead) |->
                    TabsAsSpaces(normalize_text_for_search(RunText(RunsRead[k])))])

----------------------------------------------------------------------------
(* C20 *)

\* the style name the call hands to doc.add_paragraph (None: a style object
\* or nothing is handed over, and no name is looked up)
RequestedStyle ==
    IF call.fn \in {"insert_header_near_text", "insert_line_or_paragraph_near_text"}
    THEN call.style
    ELSE IF call.new_paragraph_style # None THEN call.new_paragraph_style ELSE Normal

\* the call has paragraphs to add
HasToAdd ==
    call.fn \in {"replace_paragraph_block_below_header", "replace_block_between_manual_anchors"}
    => call.new_paragraphs # <<>>

\* the messages of a call that did what it was asked to
SuccessMessages ==
    {"Header inserted", "Line/paragraph inserted", "Replaced content under header",
     "Replaced content between anchors"}

\* C20: when the requested paragraph style is not in the style catalog, each
\* of the four functions returns a failure message: no exception escapes, and
\* no call that has paragraphs to add reports success
C20_StyleFailureReported ==
    ( /\ call.fn \in {"insert_header_near_text", "insert_line_or_paragraph_near_text",
                      "replace_paragraph_block_below_header",
                      "replace_block_between_manual_anchors"}
      /\ result.kind # "none"
      /\ RequestedStyle # None /\ RequestedStyle \notin styles )
    => /\ result.kind = "returned"
       /\ HasToAdd => result.value \notin SuccessMessages

----------------------------------------------------------------------------
(* C21 *)

\* the 0-based index of the first paragraph of the stored document whose
\* stripped text is header_text, case-insensitively (-1: none)
HeaderAt ==
    LET hits == {i \in 0..(Len(file) - 1) :
                    Lower(Strip(file[i + 1].text)) = Lower(Strip(call.header_text))}
    IN IF hits = {} THEN -1 ELSE Least(hits)

\* the 0-based index of the next heading or table-of-contents paragraph after
\* index h, or the number of paragraphs when there is none
BlockEndAfter(h) ==
    LET ends == {i \in (h + 1)..(Len(file) - 1) : IsBlockEnd(file[i + 1])}
    IN IF ends = {} THEN Len(file) ELSE Least(ends)

\* C21: delete_block_under_header removes every paragraph after the header
\* and before the next heading or table-of-contents paragraph (or the end of
\* the document), leaves the header and everything from that paragraph on in
\* place, and returns the size of the block as the removed count
C21_BlockRemoved ==
    ( /\ call.fn = "delete_block_under_header" /\ result.kind = "returned"
      /\ HeaderAt # -1 )
    => /\ result.doc = SubSeq(file, 1, HeaderAt + 1)
                          \o SubSeq(file, BlockEndAfter(HeaderAt) + 1, Len(file))
       /\ result.removed_count = BlockEndAfter(HeaderAt) - HeaderAt - 1

----------------------------------------------------------------------------
(* C22 *)

\* the texts of the paragraphs of a stored document
TextsOf(d) == [i \in 1..Len(d) |-> d[i].text]

\* C22: insert_numbered_list_near_text puts the items of list_items, in the
\* given order, directly after the target paragraph (position 'after') or
\* directly before it (position 'before'); the saved file is compared with
\* the file before the call
C22_ListOrder ==
    [][ ( /\ call.fn = "insert_numbered_list_near_text" /\ result = NoResult
          /\ result'.kind = "returned" /\ result'.value = "Numbered list inserted" )
        => LET at == FindTarget(file, call)
               cut == IF call.position = "before" THEN at ELSE at + 1
           IN TextsOf(file') = TextsOf(SubSeq(file, 1, cut)) \o call.list_items
                                 \o TextsOf(SubSeq(file, cut + 1, Len(file)))
      ]_<<vars, single>>

----------------------------------------------------------------------------
(* C23 *)

\* the run recorded in the snapshot for one affected run is in the live
\* paragraph p, where the snapshot says: at its index in para.runs (direct
\* strategy), in the tree (tree traversal)
RunPresent(p, strategy, a) ==
    IF strategy = "standard"
    THEN /\ a.ref < Len(DirectRuns(p))
         /\ DirectRuns(p)[a.ref + 1].id = a.run.id
    ELSE a.ref \in LiveIds(p)

\* what the snapshot recorded for one affected run still denotes, in the live
\* paragraph p, the run it was recorded for and the characters of that run
\* that the match covers
StillDenotes(p, strategy, a) ==
    IF strategy = "standard"
    THEN LET live == DirectRuns(p)
         IN /\ RunPresent(p, strategy, a)
            /\ Slice(normalize_text_for_search(RunText(live[a.ref + 1])),
                     a.overlap_start, a.overlap_end)
               = Slice(normalize_text_for_search(RunText(a.run)),
                       a.overlap_start, a.overlap_end)
    ELSE /\ a.ref \in LiveIds(p)
         /\ Slice(normalize_text_for_search(XmlRunText(p.runs[PosOfId(p, a.ref)])),
                  a.overlap_start, a.overlap_end)
            = Slice(normalize_text_for_search(XmlRunText(a.run)),
                    a.overlap_start, a.overlap_end)

\* C23: the matches of a paragraph are processed from the highest match_start
\* to the lowest, and when the occurrences do not overlap, the run and the
\* local offsets recorded in the snapshot for the match about to be processed
\* still denote the live run and its characters
C23_RightToLeft ==
    ( called = "preserve" /\ pc \in {"standard", "xml"} )
    => /\ \A i, j \in 1..Len(matches) : i < j => matches[i].s < matches[j].s
       /\ ( matches # <<>> /\ Needle # <<>> /\ NonOverlapping(Occurrences(Cur)) )
          => LET m == matches[Len(matches)]
                 affected == AffectedRuns(run_map, m.s, m.e)
             IN \A k \in 1..Len(affected) :
                    StillDenotes(doc[Cur], hist[Cur].strategy, affected[k])

----------------------------------------------------------------------------
(* C24 *)

\* the loop over the matches of a paragraph has not processed a match yet
FreshSnapshot ==
    /\ called = "preserve" /\ pc = "standard"
    /\ matches # <<>> /\ matches = Occurrences(Cur)

\* the runs the direct strategy selects for the rightmost match, after the
\* two boundary splits
Selected ==
    LET m == matches[Len(matches)]
    IN SplitBoundaries(doc[Cur], run_map, m.s, m.e).runs_to_replace

\* C24: after the first and the last overlapping run have been split, the
\* normalized text of the runs selected for removal is the matched text, no
\* more and no less
C24_ExactCover ==
    ( FreshSnapshot /\ Needle # <<>> )
    => normalize_text_for_search(Concat([k \in 1..Len(Selected) |-> RunText(Selected[k])]))
       = Needle

----------------------------------------------------------------------------
(* C25 *)

\* the direct flattened text of the paragraph, as it was, holds the search text
DirectHolds(i) == Contains(DirectFullText(doc0[i]), Needle)

\* so does the flattened text of the tree traversal
XmlHolds(i) == Contains(XmlFullText(doc0[i]), Needle)

\* C25: a table-of-contents paragraph is left as it is; any other paragraph
\* goes to the direct strategy when its direct text holds the search text, to
\* the tree traversal only when the direct text does not hold it and the
\* tree's text does, and is otherwise left as it is; the loop that runs on a
\* paragraph is the one of the strategy chosen for it
C25_StrategyOrder ==
    called = "preserve"
    => /\ \A i \in 1..Len(doc) :
             /\ IsTOC(doc0[i]) => hist[i].strategy \in {"none", "skip"} /\ doc[i] = doc0[i]
             /\ hist[i].strategy = "skip" => IsTOC(doc0[i])
             /\ hist[i].strategy = "standard" => DirectHolds(i)
             /\ hist[i].strategy = "xml" => ~DirectHolds(i) /\ XmlHolds(i)
             /\ hist[i].strategy = "nomatch" => ~DirectHolds(i) /\ ~XmlHolds(i)
             /\ doc[i] # doc0[i] => hist[i].strategy \in {"standard", "xml"}
             /\ Finished(i) /\ doc0[i].loc \in {"body", "cell"} /\ ~IsTOC(doc0[i])
                => hist[i].strategy = IF DirectHolds(i) THEN "standard"
                                      ELSE IF XmlHolds(i) THEN "xml" ELSE "nomatch"
       /\ pc \in {"standard", "xml"} => hist[Cur].strategy = pc

\* a call has returned after it skipped a table-of-contents paragraph and
\* rewrote a paragraph through the tree traversal, a paragraph that has a
\* direct run as well
C25_Witness ==
    /\ called = "preserve" /\ pc = "returned"
    /\ \E i \in 1..Len(doc) :
          /\ hist[i].strategy = "xml" /\ doc[i] # doc0[i]
          /\ \E k \in 1..Len(doc0[i].runs) : doc0[i].runs[k].wrap = 0
    /\ \E i \in 1..Len(doc) : hist[i].strategy = "skip" /\ doc[i] = doc0[i]

----------------------------------------------------------------------------
(* C26 *)

\* a run that the snapshot recorded for the match about to be processed is
\* no longer where the snapshot says
StaleMatch ==
    /\ called = "preserve" /\ pc \in {"standard", "xml"} /\ matches # <<>>
    /\ LET m == matches[Len(matches)]
           affected == AffectedRuns(run_map, m.s, m.e)
       IN \E k \in 1..Len(affected) : ~RunPresent(doc[Cur], hist[Cur].strategy, affected[k])

\* C26: a match whose recorded run is no longer in the live run sequence is
\* skipped: nothing is inserted or removed for it, it is not counted, and
\* the loop goes on with the remaining matches and paragraphs
C26_StaleMatchSkipped ==
    [][ ( StaleMatch /\ matches' # matches )
        => /\ doc' = doc
           /\ count' = count
           /\ pc' = pc
      ]_<<vars, single>>

----------------------------------------------------------------------------
(* C27 *)

\* no character of the replacement text is a character of the search text
SharesNoCharacter ==
    \A i \in 1..Len(new_text) : \A j \in 1..Len(Needle) : new_text[i] # Needle[j]

\* C27: after find_and_replace_text_preserve_formatting has returned, with a
\* non-empty search text and a replacement that shares no character with it,
\* no paragraph of the body or of a cell of a top-level table, other than
\* those of the table of contents, holds the search text in the flattened
\* text of its runs
C27_NoOccurrenceLeft ==
    ( /\ called = "preserve" /\ pc = "returned"
      /\ Needle # <<>> /\ SharesNoCharacter )
    => \A i \in 1..Len(doc) :
           ( doc[i].loc \in {"body", "cell"} /\ ~IsTOC(doc[i]) )
           => ~Contains(Flat(doc[i]), Needle)

----------------------------------------------------------------------------
(* C28 *)

\* the 0-based index of the start anchor in the stored document (-1: none)
StartAnchorAt ==
    LET hits == {i \in 0..(Len(file) - 1) :
                    Strip(file[i + 1].text) = Strip(call.start_anchor_text)}
    IN IF hits = {} THEN -1 ELSE Least(hits)

\* the 0-based index at which the block after the start anchor ends: the end
\* anchor, or without one the next paragraph with a bold run, or the end
BlockEndOfAnchors ==
    LET ends == {i \in (StartAnchorAt + 1)..(Len(file) - 1) :
                    IF call.end_anchor_text # None
                    THEN Strip(file[i + 1].text) = Strip(call.end_anchor_text)
                    ELSE file[i + 1].bold}
    IN IF ends = {} THEN Len(file) ELSE Least(ends)

\* the texts of the document with the block deleted and all the new
\* paragraphs behind the start anchor
FullyReplaced ==
    TextsOf(SubSeq(file, 1, StartAnchorAt + 1)) \o call.new_paragraphs
    \o TextsOf(SubSeq(file, BlockEndOfAnchors + 1, Len(file)))

\* C28: however replace_block_between_manual_anchors ends, the stored
\* document is either unchanged or has the block deleted and all the new
\* paragraphs behind the start anchor
C28_AllOrNothing ==
    [][ ( /\ call.fn = "replace_block_between_manual_anchors"
          /\ result = NoResult /\ result' # NoResult )
        => \/ file' = file
           \/ StartAnchorAt # -1 /\ TextsOf(file') = FullyReplaced
      ]_<<vars, single>>

----------------------------------------------------------------------------
(* C29 *)

\* the 0-based index of the header replace_paragraph_block_below_header
\* selects: the first paragraph outside the table of contents whose stripped
\* text is header_text, case-insensitively (-1: none)
SelectedHeaderAt ==
    LET hits == {i \in 0..(Len(file) - 1) :
                    /\ Lower(Strip(file[i + 1].text)) = Lower(Strip(call.header_text))
                    /\ ~is_toc_paragraph(file[i + 1])}
    IN IF hits = {} THEN -1 ELSE Least(hits)

\* C29: replace_paragraph_block_below_header removes the paragraphs that
\* follow the header it selected, up to the next heading or
\* table-of-contents paragraph, and puts the new paragraphs in order directly
\* behind that header; the paragraphs before the header stay as they are
C29_SameHeader ==
    [][ ( /\ call.fn = "replace_paragraph_block_below_header"
          /\ result = NoResult
          /\ result'.kind = "returned" /\ result'.value = "Replaced content under header" )
        => LET h == SelectedHeaderAt
           IN TextsOf(file') = TextsOf(SubSeq(file, 1, h + 1)) \o call.new_paragraphs
                                 \o TextsOf(SubSeq(file, BlockEndAfter(h) + 1, Len(file)))
      ]_<<vars, single>>

----------------------------------------------------------------------------
(* C30 *)

\* what list_pictures reports for the stored document
Reported == list_pictures(file, "ok")

\* picture_index is an index that list_pictures reports
IsReported(i) ==
    /\ Reported.value = "Found picture(s)"
    /\ i < Len(Reported.pictures_info)

\* the paragraph of the picture reported under index i, and the place of the
\* picture among the pictures of that paragraph
ReportedPara(i) == Reported.pictures_info[i + 1].para

ReportedPos(i) ==
    Cardinality({j \in 0..i : Reported.pictures_info[j + 1].para = ReportedPara(i)})

\* a picture tool is called on a file that is there and can be written
PictureCall(fn) ==
    /\ call.fn = fn /\ call.access = "ok"
    /\ result = NoResult /\ result' # NoResult

\* C30: resize_picture(i) changes the picture that list_pictures reports
\* under index i and no other; align_picture(i) changes the alignment of the
\* paragraph of that picture and of no other; process_pictures_by_size with
\* an alignment changes the alignment only of paragraphs that hold a picture
\* matching the size criteria
C30_SamePicture ==
    [][ /\ ( PictureCall("resize_picture") /\ IsReported(call.picture_index) )
           => LET i == call.picture_index
              IN /\ result'.value = "Picture resized successfully"
                 /\ \A k \in 1..Len(file) :
                        \A j \in 1..Len(file[k].pics) :
                            file'[k].pics[j] # file[k].pics[j]
                            <=> k = ReportedPara(i) /\ j = ReportedPos(i)
        /\ ( PictureCall("align_picture") /\ IsReported(call.picture_index) )
           => LET i == call.picture_index
              IN /\ result'.value = "Picture aligned successfully"
                 /\ \A k \in 1..Len(file) :
                        file'[k].alignment # file[k].alignment <=> k = ReportedPara(i)
        /\ PictureCall("process_pictures_by_size")
           => \A k \in 1..Len(file) :
                  file'[k].alignment # file[k].alignment
                  => \E n \in 1..Len(Reported.pictures_info) :
                         /\ Reported.pictures_info[n].para = k
                         /\ MatchesCriteria(Reported.pictures_info[n], call)
      ]_<<vars, single>>

====
